---- MODULE Spec2Model ----
(***************************************************************************)
(* Plan/Apply workflows of the eng-mat/shell automation scripts:           *)
(*   - infoblox-v3/create_infoblox.py       multi-pool CIDR dry-run/apply  *)
(*   - infoblox-v2/create_infoblox.py       single-pool CIDR dry-run/apply *)
(*   - full-subnet-automation/...           compound (GKE) reserve-ips     *)
(*   - vertexai_iam_policy/..._v2.py        IAM policy dry-run/apply       *)
(* One script runs per behaviour (variable script).  Every backend call is *)
(* one step; the backend answers each call with one of a small set of      *)
(* response shapes.  Other actors change the backend between steps.        *)
(***************************************************************************)
EXTENDS Integers, Sequences, FiniteSets, TLC

\* ---------------------------------------------------------------- bounds
NumPools == 2
UnitsPerPool == 2
MaxList == 2
MaxRivalOps == 1
NumRoles == 2
MaxTokens == 2

\* ------------------------------------------------------ address backend
Pools == 1..NumPools
Units == 0..(UnitsPerPool - 1)

\* A pool is a /24 container of UnitsPerPool /25 units; a block is an aligned
\* run of units of one pool.
NoBlock == [pool |-> 0, start |-> 0, len |-> 0]

\* Units a block of the requested prefix length takes; 0: the backend has no
\* such block in a /24 container (it answers the request with HTTP 400).
UnitsOf(prefix) ==
  IF prefix = 24 THEN 2 ELSE IF prefix = 25 THEN 1 ELSE 0

PoolLists == UNION {[1..n -> Pools] : n \in 0..MaxList}
Prefixes == {24, 25, 33}

BlockUnits(b) == {<<b.pool, u>> : u \in b.start..(b.start + b.len - 1)}

FreeStarts(res, p, n) ==
  {s \in Units : /\ n > 0
                 /\ s % n = 0
                 /\ s + n - 1 \in Units
                 /\ \A u \in s..(s + n - 1) : <<p, u>> \notin res}

HasFree(res, p, prefix) == FreeStarts(res, p, UnitsOf(prefix)) # {}

Min(S) == CHOOSE x \in S : \A y \in S : x <= y

\* next_available_network: the lowest free aligned block, a preview that
\* reserves nothing.
NextFree(res, p, prefix) ==
  [pool |-> p, start |-> Min(FreeStarts(res, p, UnitsOf(prefix))),
   len |-> UnitsOf(prefix)]

IsFree(res, b) == b.len > 0 /\ BlockUnits(b) \cap res = {}

\* ------------------------------------------------------ backend answers
\* What a WAPI call can come back with: an exception of the requests library
\* (connection error or timeout, HTTP error status from raise_for_status, a
\* body that is not JSON: all are RequestException), or a JSON body.
Errors == {"conn", "http", "json"}
LookupBodies == {"null", "empty_list", "dict", "list_no_ref", "list_ref"}
NextBodies == {"null", "list", "dict_no_networks", "networks_empty", "networks"}

Truthy(body) == body \notin {"null", "empty_list"}
IsList(body) == body \in {"empty_list", "list_no_ref", "list_ref", "list"}
IsDict(body) == body \in {"dict", "dict_no_networks", "networks_empty", "networks"}
FirstHasRef(body) == body = "list_ref"
HasNetworksKey(body) == body \in {"networks_empty", "networks"}
NetworksNonEmpty(body) == body = "networks"

\* data and isinstance(data, list) and len(data) > 0 and '_ref' in data[0]
RefFound(body) ==
  Truthy(body) /\ IsList(body) /\ body # "empty_list" /\ FirstHasRef(body)

\* data and isinstance(data, dict) and 'networks' in data and len(data['networks']) > 0
NetworksFound(body) ==
  Truthy(body) /\ IsDict(body) /\ HasNetworksKey(body) /\ NetworksNonEmpty(body)

LookupResponses ==
  [err : Errors, body : {"null"}] \cup [err : {"none"}, body : LookupBodies]

\* The backend proposes a block only from a pool that has one free.
NextResponses(res, p, prefix) ==
  [err : Errors, body : {"null"}]
    \cup [err : {"none"},
          body : IF HasFree(res, p, prefix) THEN NextBodies
                 ELSE NextBodies \ {"networks"}]

\* ------------------------------------------------------ policy documents
\* Roles are numbered in the order sorted() puts their names in.  A policy's
\* bindings are a list of {role, members}, members a list of principals.
Roles == 1..NumRoles
SA == "serviceAccount:sa"
GROUP == "group:ad"
Members == {SA, GROUP, "user:u1"}

\* A token of a comma-separated --roles-* argument: a role name, or 0 for a
\* token that is empty once stripped.
Tokens == Roles \cup {0}
TokenSeqs == UNION {[1..n -> Tokens] : n \in 0..MaxTokens}

\* BUNDLED_ROLES_CONFIG.get(bundle_name): None for an unknown name.
KnownBundles == {"CUSTOM_BUNDLE_1"}
BUNDLED_ROLES_CONFIG(name) == IF name = "CUSTOM_BUNDLE_1" THEN {1, 2} ELSE {}

\* get_bundled_roles exits with status 1 on an unknown bundle name.
BundleUnknown(name) == name # "" /\ name \notin KnownBundles
get_bundled_roles(name) == IF name = "" THEN {} ELSE BUNDLED_ROLES_CONFIG(name)

\* set(role.strip() for role in arg.split(',') if role.strip()), then the bundle
RolesToAssign(tokens, bundle) ==
  {tokens[i] : i \in {j \in 1..Len(tokens) : tokens[j] # 0}}
    \cup get_bundled_roles(bundle)

\* sorted(list(roles))
RECURSIVE Sorted(_)
Sorted(S) ==
  IF S = {} THEN << >>
  ELSE LET lo == CHOOSE x \in S : \A y \in S : x <= y
       IN <<lo>> \o Sorted(S \ {lo})

SeqSet(q) == {q[i] : i \in 1..Len(q)}

\* [str(m) for m in binding["members"] if isinstance(m, str)]
KeepStrings(members) == SelectSeq(members, LAMBDA m : m \in Members)

\* Index of the first binding of the role, 0 if there is none (the for loop
\* with its break).
FirstBinding(bindings, role) ==
  IF \E i \in 1..Len(bindings) : bindings[i].role = role
    THEN CHOOSE i \in 1..Len(bindings) :
           /\ bindings[i].role = role
           /\ \A j \in 1..(i - 1) : bindings[j].role # role
    ELSE 0

\* add_or_update_member_in_policy: the bindings after the call.
AddMemberAlways(bindings, role, member) ==
  LET i == FirstBinding(bindings, role) IN
  IF i # 0
    THEN [bindings EXCEPT ![i].members = Append(KeepStrings(@), member)]
    ELSE Append(bindings, [role |-> role, members |-> <<member>>])

AddMemberOverwrite(bindings, role, member) ==
  LET i == FirstBinding(bindings, role) IN
  IF i # 0
    THEN [bindings EXCEPT ![i].members = <<member>>]
    ELSE Append(bindings, [role |-> role, members |-> <<member>>])

AddBindingAlways(bindings, role, member) ==
  LET i == FirstBinding(bindings, role) IN
  IF i # 0 /\ member \in SeqSet(KeepStrings(bindings[i].members))
    THEN [bindings EXCEPT ![i].members = KeepStrings(@)]
    ELSE Append(bindings, [role |-> role, members |-> <<member>>])

add_or_update_member_in_policy(bindings, role, member) ==
  LET i == FirstBinding(bindings, role) IN
  IF i # 0
    THEN IF member \notin SeqSet(KeepStrings(bindings[i].members))
           THEN [bindings EXCEPT ![i].members = Append(KeepStrings(@), member)]
           ELSE [bindings EXCEPT ![i].members = KeepStrings(@)]
    ELSE Append(bindings, [role |-> role, members |-> <<member>>])

\* The second value add_or_update_member_in_policy returns
\* (member_added_or_exists): set on every path.
member_added_or_exists(bindings, role, member) ==
  LET i == FirstBinding(bindings, role) IN
  IF i # 0
    THEN IF member \notin SeqSet(KeepStrings(bindings[i].members))
           THEN TRUE
           ELSE TRUE
    ELSE TRUE

\* for role in sorted(list(roles_to_assign)): modified_policy, changed = ...
RECURSIVE AssignRoles(_, _, _)
AssignRoles(bindings, roles, member) ==
  IF roles = << >> THEN bindings
  ELSE AssignRoles(add_or_update_member_in_policy(bindings, Head(roles), member),
                   Tail(roles), member)

RECURSIVE AnyChanged(_, _, _)
AnyChanged(bindings, roles, member) ==
  IF roles = << >> THEN FALSE
  ELSE \/ member_added_or_exists(bindings, Head(roles), member)
       \/ AnyChanged(add_or_update_member_in_policy(bindings, Head(roles), member),
                     Tail(roles), member)

\* The order main hands the roles of one principal to the merge in.
RoleOrderFirstOnly(tokens, bundle) ==
  IF tokens # << >> /\ Head(tokens) # 0 THEN <<Head(tokens)>> ELSE << >>

RoleOrder(tokens, bundle) == Sorted(RolesToAssign(tokens, bundle))

\* Command-line arguments of the policy script.
NoGrant == [sa |-> FALSE, rolesSa |-> << >>, bundleSa |-> "",
            ad |-> FALSE, rolesAd |-> << >>, bundleAd |-> ""]

SaRoles(g) == IF g.sa THEN RoleOrder(g.rolesSa, g.bundleSa) ELSE << >>
AdRoles(g) == IF g.ad THEN RoleOrder(g.rolesAd, g.bundleAd) ELSE << >>

\* As MergeBindings, but only the service account's roles are merged.
MergeBindingsSaOnly(bindings, g) == AssignRoles(bindings, SaRoles(g), SA)

\* main: the service account's roles, then the group's.
MergeBindings(bindings, g) ==
  AssignRoles(AssignRoles(bindings, SaRoles(g), SA), AdRoles(g), GROUP)

\* any_changes_made after both loops
any_changes_made(bindings, g) ==
  \/ AnyChanged(bindings, SaRoles(g), SA)
  \/ AnyChanged(AssignRoles(bindings, SaRoles(g), SA), AdRoles(g), GROUP)

\* A comparison that ignores the dumps.
SameDumpAlways(b1, b2) == TRUE

\* json.dumps(bindings, sort_keys=True): keys are sorted, lists keep their
\* order, so two dumps are equal exactly when the binding lists are.
SameDump(b1, b2) == b1 = b2

\* The dry-run's last message.
DryRunReport(current, modified, changed) ==
  IF ~changed /\ SameDump(current, modified) THEN "no_changes" ELSE "proposed"

\* The (role, member) pairs a binding list grants.
Pairs(bindings) ==
  UNION {{<<bindings[i].role, mem>> : mem \in SeqSet(bindings[i].members)} :
           i \in 1..Len(bindings)}

\* A binding list as a set of (role, member set).
BindingSet(bindings) ==
  {[role |-> bindings[i].role, members |-> SeqSet(bindings[i].members)] :
     i \in 1..Len(bindings)}

\* ---------------------------------------------------------------- state
VARIABLES
  script,     \* which script this behaviour runs
  pc,         \* position of the running invocation
  exitCode,   \* exit status of the last finished invocation, -1: none yet
  inp,        \* command-line arguments and configuration
  sub,        \* sub-request being searched: single, primary, pods, services
  idx,        \* position of the search loop in its pool list
  stage,      \* lookup: before the container GET; next: before the POST
  ret,        \* what the last finished search returned
  found,      \* per sub-request, the block and pool the search returned
  result,     \* value returned by reserve_ips_in_infoblox
  handoff,    \* what the plan wrote to GITHUB_OUTPUT
  calls,      \* backend calls this workflow issued, in order
  tried,      \* history: per finished loop iteration, the pool and outcome
  reserved,   \* backend: reserved units, per network container
  rivalOps,   \* reservations other actors made so far
  phase,      \* plan or apply: the invocation that runs or ran last
  iam,        \* backend: the project's IAM policy, etag and bindings
  cur,        \* current_policy, as read by the running invocation
  modp,       \* modified_policy
  anyChanges, \* any_changes_made
  report,     \* the dry-run's last message
  outcome,    \* how the apply ended: noop, applied, error
  planEtag,   \* history: the etag the dry-run read
  orgPolicy,  \* backend: subnets the service project's org policy allows
  m           \* the merge applied to drawn inputs (specification SpecMerge)

vars == <<script, orgPolicy, pc, exitCode, inp, sub, idx, stage, ret, found, result,
          handoff, calls, tried, reserved, rivalOps, phase, iam, cur, modp,
          anyChanges, report, outcome, planEtag, m>>

policyVars == <<iam, cur, modp, anyChanges, report, outcome, planEtag, m>>

\* subnet_path of the subnet this run creates, and a subnet shared earlier.
subnet_path == "this"
OtherSubnet == "other"
NoOrgPolicy == [allowed |-> {}, atStart |-> {}]

NoResult == [block |-> NoBlock, pool |-> 0]
NoHandoff == [primary |-> NoBlock, pods |-> NoBlock, services |-> NoBlock,
              supernet |-> 0, subnet_ref |-> NoBlock, written |-> FALSE]
Subs == {"single", "primary", "pods", "services"}

Call(op, pool, block, view) ==
  [op |-> op, pool |-> pool, block |-> block, view |-> view, sub |-> sub,
   etag |-> 0, phase |-> phase, res |-> ""]

\* POST /network, with the backend's answer.
CreateCall(block, view, res) ==
  [op |-> "create", pool |-> 0, block |-> block, view |-> view, sub |-> sub,
   etag |-> 0, phase |-> phase, res |-> res]

PolicyCall(op, etag) ==
  [op |-> op, pool |-> 0, block |-> NoBlock, view |-> "", sub |-> sub,
   etag |-> etag, phase |-> phase, res |-> ""]

\* The call with what the search made of its answer: the container reference
\* or the proposed network was found in it, or not.
Answered(c, r) ==
  [c EXCEPT !.res = IF r.err = "none"
                       /\ (IF c.op = "lookup" THEN RefFound(r.body)
                           ELSE NetworksFound(r.body))
                      THEN "found" ELSE "notfound"]

ReadOps == {"lookup", "next", "getPolicy", "find"}

Terminal == {"planned", "applied", "failed", "crashed"}

\* exit(1) / exit 0 / an uncaught exception (status 1) of the running script
Exit(code) == pc' = (IF code = 0 THEN (IF phase = "plan" THEN "planned" ELSE "applied")
                     ELSE "failed") /\ exitCode' = code
Crash == pc' = "crashed" /\ exitCode' = 1

\* ------------------------------------------- infoblox-v3: multi-pool search
\* As V3TryNext, but a failed pool ends the search.
V3TryNextAbort ==
  /\ tried' = Append(tried, [sub |-> sub, pool |-> inp.list[idx], ok |-> FALSE,
                             block |-> NoBlock])
  /\ stage' = "lookup" /\ idx' = idx /\ pc' = "searched" /\ ret' = NoResult

\* As V3TryNext, but an exhausted list is walked through a second time.
V3TryNextSecondPass ==
  /\ tried' = Append(tried, [sub |-> sub, pool |-> inp.list[idx], ok |-> FALSE,
                             block |-> NoBlock])
  /\ stage' = "lookup"
  /\ IF idx < Len(inp.list)
       THEN idx' = idx + 1 /\ UNCHANGED <<pc, ret>>
       ELSE IF Len(tried) < Len(inp.list)
         THEN idx' = 1 /\ UNCHANGED <<pc, ret>>
         ELSE idx' = idx /\ pc' = "searched" /\ ret' = NoResult

\* One pass of the loop body failed: continue with the next pool, or fall out
\* of the loop and return (None, None).
V3TryNext ==
  /\ tried' = Append(tried, [sub |-> sub, pool |-> inp.list[idx], ok |-> FALSE,
                             block |-> NoBlock])
  /\ stage' = "lookup"
  /\ IF idx < Len(inp.list)
       THEN idx' = idx + 1 /\ UNCHANGED <<pc, ret>>
       ELSE idx' = idx /\ pc' = "searched" /\ ret' = NoResult

\* As find_next_available_cidr_lookup, but step 2 follows whatever the lookup
\* answered.
find_next_available_cidr_lookup_blind ==
  /\ script = "v3" /\ pc = "search" /\ stage = "lookup"
  /\ \E r \in LookupResponses :
       /\ calls' = Append(calls,
                           Answered(Call("lookup", inp.list[idx], NoBlock, inp.view), r))
       /\ stage' = "next" /\ UNCHANGED <<idx, tried, pc, ret>>
  /\ UNCHANGED <<script, orgPolicy, exitCode, inp, sub, found, result, handoff, reserved,
                 rivalOps, phase>>
  /\ UNCHANGED policyVars

\* Step 1 of an iteration: GET networkcontainer for the pool.
find_next_available_cidr_lookup ==
  /\ script = "v3" /\ pc = "search" /\ stage = "lookup"
  /\ \E r \in LookupResponses :
       /\ calls' = Append(calls,
                           Answered(Call("lookup", inp.list[idx], NoBlock, inp.view), r))
       /\ IF r.err = "none" /\ RefFound(r.body)
            THEN stage' = "next" /\ UNCHANGED <<idx, tried, pc, ret>>
            ELSE V3TryNext
  /\ UNCHANGED <<script, orgPolicy, exitCode, inp, sub, found, result, handoff, reserved,
                 rivalOps, phase>>
  /\ UNCHANGED policyVars

\* Step 2 of an iteration: POST next_available_network on the container.
find_next_available_cidr_next ==
  /\ script = "v3" /\ pc = "search" /\ stage = "next"
  /\ \E r \in NextResponses(reserved, inp.list[idx], inp.size) :
       /\ calls' = Append(calls,
                           Answered(Call("next", inp.list[idx], NoBlock, inp.view), r))
       /\ IF r.err = "none" /\ NetworksFound(r.body)
            THEN /\ tried' = Append(tried,
                        [sub |-> sub, pool |-> inp.list[idx], ok |-> TRUE,
                         block |-> NextFree(reserved, inp.list[idx], inp.size)])
                 /\ ret' = [block |-> NextFree(reserved, inp.list[idx], inp.size),
                            pool |-> inp.list[idx]]
                 /\ pc' = "searched"
                 /\ UNCHANGED <<idx, stage>>
            ELSE V3TryNext
  /\ UNCHANGED <<script, orgPolicy, exitCode, inp, sub, found, result, handoff, reserved,
                 rivalOps, phase>>
  /\ UNCHANGED policyVars

\* main, dry-run: the mapping for the selected criteria must name pools.
V3DryRunStart ==
  /\ script = "v3" /\ pc = "start" /\ phase = "plan"
  /\ IF inp.list = << >>
       THEN Exit(1) /\ UNCHANGED <<idx, stage>>
       ELSE pc' = "search" /\ idx' = 1 /\ stage' = "lookup" /\ UNCHANGED exitCode
  /\ UNCHANGED <<script, orgPolicy, inp, sub, ret, found, result, handoff, calls, tried,
                 reserved, rivalOps, phase>>
  /\ UNCHANGED policyVars

\* As V3DryRunFinish, but the dry-run also creates the network it proposes.
V3DryRunFinishReserving ==
  /\ script = "v3" /\ pc = "searched" /\ phase = "plan"
  /\ found' = [found EXCEPT !["single"] = ret]
  /\ IF ret.block # NoBlock
       THEN /\ handoff' = [handoff EXCEPT !.primary = ret.block,
                                          !.supernet = ret.pool,
                                          !.written = TRUE]
            /\ calls' = Append(calls, CreateCall(ret.block, "default", "created"))
            /\ reserved' = reserved \cup BlockUnits(ret.block)
            /\ Exit(0)
       ELSE Exit(1) /\ UNCHANGED <<handoff, calls, reserved>>
  /\ UNCHANGED <<script, orgPolicy, inp, sub, idx, stage, ret, result, tried, rivalOps,
                 phase>>
  /\ UNCHANGED policyVars

\* main, dry-run: write the proposal, or fail.
V3DryRunFinish ==
  /\ script = "v3" /\ pc = "searched" /\ phase = "plan"
  /\ found' = [found EXCEPT !["single"] = ret]
  /\ IF ret.block # NoBlock
       THEN /\ handoff' = [handoff EXCEPT !.primary = ret.block,
                                          !.supernet = ret.pool,
                                          !.written = TRUE]
            /\ Exit(0)
       ELSE Exit(1) /\ UNCHANGED handoff
  /\ UNCHANGED <<script, orgPolicy, inp, sub, idx, stage, ret, result, calls, tried,
                 reserved, rivalOps, phase>>
  /\ UNCHANGED policyVars

\* What POST /network can come back with: created, rejected (HTTP 400: the
\* block is taken or is no network), or no response at all.
CreateResponses(res, b) ==
  IF IsFree(res, b) THEN {"created", "http", "conn"} ELSE {"http", "conn"}

\* As reserve_cidr_v3, but a rejected block is replaced by the pool's next
\* free block.
reserve_cidr_v3_substitute ==
  /\ script = "v3" /\ pc = "applying" /\ phase = "apply"
  /\ \E r \in CreateResponses(reserved, inp.proposed) :
       IF r = "http" /\ inp.proposed # NoBlock
             /\ FreeStarts(reserved, inp.proposed.pool, 1) # {}
         THEN LET other == [pool |-> inp.proposed.pool,
                            start |-> Min(FreeStarts(reserved, inp.proposed.pool, 1)),
                            len |-> 1] IN
              /\ calls' = calls \o <<CreateCall(inp.proposed, "default", r),
                                     CreateCall(other, "default", "created")>>
              /\ reserved' = reserved \cup BlockUnits(other)
              /\ Exit(0)
         ELSE /\ calls' = Append(calls, CreateCall(inp.proposed, "default", r))
              /\ reserved' = IF r = "created"
                               THEN reserved \cup BlockUnits(inp.proposed)
                               ELSE reserved
              /\ IF r = "created" THEN Exit(0)
                 ELSE IF r = "http" THEN Exit(1)
                 ELSE Crash
  /\ UNCHANGED <<script, orgPolicy, inp, sub, idx, stage, ret, found, result, handoff,
                 tried, rivalOps, phase>>
  /\ UNCHANGED policyVars

\* As reserve_cidr_v3, but the status of the response is not looked at.
reserve_cidr_v3_unchecked ==
  /\ script = "v3" /\ pc = "applying" /\ phase = "apply"
  /\ \E r \in CreateResponses(reserved, inp.proposed) :
       /\ calls' = Append(calls, CreateCall(inp.proposed, "default", r))
       /\ reserved' = IF r = "created" THEN reserved \cup BlockUnits(inp.proposed)
                      ELSE reserved
       /\ IF r \in {"created", "http"} THEN Exit(0) ELSE Crash
  /\ UNCHANGED <<script, orgPolicy, inp, sub, idx, stage, ret, found, result, handoff,
                 tried, rivalOps, phase>>
  /\ UNCHANGED policyVars

\* reserve_cidr of infoblox-v3: one POST /network; no network_view is sent.
\* With no response, the except block reads the unbound name response.
reserve_cidr_v3 ==
  /\ script = "v3" /\ pc = "applying" /\ phase = "apply"
  /\ \E r \in CreateResponses(reserved, inp.proposed) :
       /\ calls' = Append(calls, CreateCall(inp.proposed, "default", r))
       /\ reserved' = IF r = "created" THEN reserved \cup BlockUnits(inp.proposed)
                      ELSE reserved
       /\ IF r = "created" THEN Exit(0)
          ELSE IF r = "http" THEN Exit(1)
          ELSE Crash
  /\ UNCHANGED <<script, orgPolicy, inp, sub, idx, stage, ret, found, result, handoff,
                 tried, rivalOps, phase>>
  /\ UNCHANGED policyVars

\* The apply job starts: --proposed-subnet is the plan's output, or empty.
V3ApplyStart ==
  /\ script = "v3" /\ pc = "planned" /\ phase = "plan"
  /\ \E given \in {handoff.primary, NoBlock} :
       inp' = [inp EXCEPT !.proposed = given]
  /\ phase' = "apply" /\ pc' = "applying" /\ exitCode' = -1
  /\ UNCHANGED <<script, orgPolicy, sub, idx, stage, ret, found, result, handoff, calls,
                 tried, reserved, rivalOps>>
  /\ UNCHANGED policyVars

\* ------------------------------------------ infoblox-v2: single-pool search
\* validate_inputs: every argument given, 1 <= cidr_block_size <= 32, the
\* supernet a network, the subnet name not blank.
validate_inputs(argsGiven, size) ==
  /\ argsGiven
  /\ 1 <= size /\ size <= 32

\* main of infoblox-v2 up to the action: credentials, then validate_inputs.
V2Start ==
  /\ script = "v2" /\ pc = "start"
  /\ IF ~validate_inputs(inp.argsOk, inp.size)
       THEN Exit(1) /\ UNCHANGED <<idx, stage>>
       ELSE IF phase = "plan"
         THEN pc' = "search" /\ idx' = 1 /\ stage' = "lookup" /\ UNCHANGED exitCode
         ELSE pc' = "applying" /\ UNCHANGED <<exitCode, idx, stage>>
  /\ UNCHANGED <<script, orgPolicy, inp, sub, ret, found, result, handoff, calls, tried,
                 reserved, rivalOps, phase>>
  /\ UNCHANGED policyVars

\* find_next_available_cidr of infoblox-v2, step 1: any failure returns None.
find_next_available_cidr_v2_lookup ==
  /\ script = "v2" /\ pc = "search" /\ stage = "lookup"
  /\ \E r \in LookupResponses :
       /\ calls' = Append(calls,
                           Answered(Call("lookup", inp.list[1], NoBlock, inp.view), r))
       /\ IF r.err = "none" /\ RefFound(r.body)
            THEN stage' = "next" /\ UNCHANGED <<tried, pc, ret>>
            ELSE /\ tried' = Append(tried, [sub |-> sub, pool |-> inp.list[1],
                                            ok |-> FALSE, block |-> NoBlock])
                 /\ pc' = "searched" /\ ret' = NoResult /\ UNCHANGED stage
  /\ UNCHANGED <<script, orgPolicy, exitCode, inp, sub, idx, found, result, handoff,
                 reserved, rivalOps, phase>>
  /\ UNCHANGED policyVars

\* find_next_available_cidr of infoblox-v2, step 2.
find_next_available_cidr_v2_next ==
  /\ script = "v2" /\ pc = "search" /\ stage = "next"
  /\ \E r \in NextResponses(reserved, inp.list[1], inp.size) :
       /\ calls' = Append(calls,
                           Answered(Call("next", inp.list[1], NoBlock, inp.view), r))
       /\ ret' = IF r.err = "none" /\ NetworksFound(r.body)
                   THEN [block |-> NextFree(reserved, inp.list[1], inp.size),
                         pool |-> inp.list[1]]
                   ELSE NoResult
       /\ tried' = Append(tried, [sub |-> sub, pool |-> inp.list[1],
                                  ok |-> ret'.block # NoBlock,
                                  block |-> ret'.block])
       /\ pc' = "searched"
  /\ UNCHANGED <<script, orgPolicy, exitCode, inp, sub, idx, stage, found, result, handoff,
                 reserved, rivalOps, phase>>
  /\ UNCHANGED policyVars

\* main of infoblox-v2, dry-run: write the proposal, or fail.
V2DryRunFinish ==
  /\ script = "v2" /\ pc = "searched" /\ phase = "plan"
  /\ found' = [found EXCEPT !["single"] = ret]
  /\ IF ret.block # NoBlock
       THEN /\ handoff' = [handoff EXCEPT !.primary = ret.block,
                                          !.supernet = ret.pool,
                                          !.written = TRUE]
            /\ Exit(0)
       ELSE Exit(1) /\ UNCHANGED handoff
  /\ UNCHANGED <<script, orgPolicy, inp, sub, idx, stage, ret, result, calls, tried,
                 reserved, rivalOps, phase>>
  /\ UNCHANGED policyVars

\* The apply job starts: --proposed-subnet is the plan's output, or missing.
V2ApplyStart ==
  /\ script = "v2" /\ pc = "planned" /\ phase = "plan"
  /\ \E given \in {handoff.primary, NoBlock} :
       inp' = [inp EXCEPT !.proposed = given]
  /\ phase' = "apply" /\ pc' = "start" /\ exitCode' = -1
  /\ UNCHANGED <<script, orgPolicy, sub, idx, stage, ret, found, result, handoff, calls,
                 tried, reserved, rivalOps>>
  /\ UNCHANGED policyVars

\* main of infoblox-v2, apply: --proposed-subnet must be given; reserve_cidr
\* posts it with the network view.  With no response, the except block reads
\* the unbound name response.
reserve_cidr_v2 ==
  /\ script = "v2" /\ pc = "applying" /\ phase = "apply"
  /\ IF inp.proposed = NoBlock
       THEN Exit(1) /\ UNCHANGED <<calls, reserved>>
       ELSE \E r \in CreateResponses(reserved, inp.proposed) :
              /\ calls' = Append(calls, CreateCall(inp.proposed, inp.view, r))
              /\ reserved' = IF r = "created"
                               THEN reserved \cup BlockUnits(inp.proposed)
                               ELSE reserved
              /\ IF r = "created" THEN Exit(0)
                 ELSE IF r = "http" THEN Exit(1)
                 ELSE Crash
  /\ UNCHANGED <<script, orgPolicy, inp, sub, idx, stage, ret, found, result, handoff,
                 tried, rivalOps, phase>>
  /\ UNCHANGED policyVars

\* ------------------------------ full-subnet-automation: compound reserve-ips
\* Arguments of the running _find_one_available_cidr call.
GkeList == IF sub = "primary" THEN inp.list ELSE inp.nrList
GkeView == IF sub = "primary" THEN inp.view ELSE inp.nrView
GkeSize == IF sub = "primary" THEN inp.size
           ELSE IF sub = "pods" THEN inp.podsSize ELSE inp.servicesSize

\* The loop body ended without a return (continue, or falling through after an
\* answer without networks): next pool, or leave the loop: return None, None.
GkeTryNext ==
  /\ tried' = Append(tried, [sub |-> sub, pool |-> GkeList[idx], ok |-> FALSE,
                             block |-> NoBlock])
  /\ stage' = "lookup"
  /\ IF idx < Len(GkeList)
       THEN idx' = idx + 1 /\ UNCHANGED <<pc, ret>>
       ELSE idx' = idx /\ pc' = "searched" /\ ret' = NoResult

\* _find_one_available_cidr: GET networkcontainer for the pool.
find_one_available_cidr_lookup ==
  /\ script = "gke" /\ pc = "search" /\ stage = "lookup"
  /\ \E r \in LookupResponses :
       /\ calls' = Append(calls,
                           Answered(Call("lookup", GkeList[idx], NoBlock, GkeView), r))
       /\ IF r.err # "none" THEN GkeTryNext
          ELSE IF ~RefFound(r.body) THEN GkeTryNext
          ELSE stage' = "next" /\ UNCHANGED <<idx, tried, pc, ret>>
  /\ UNCHANGED <<script, orgPolicy, exitCode, inp, sub, found, result, handoff, reserved,
                 rivalOps, phase>>
  /\ UNCHANGED policyVars

\* _find_one_available_cidr: POST next_available_network on the container.
find_one_available_cidr_next ==
  /\ script = "gke" /\ pc = "search" /\ stage = "next"
  /\ \E r \in NextResponses(reserved, GkeList[idx], GkeSize) :
       /\ calls' = Append(calls,
                           Answered(Call("next", GkeList[idx], NoBlock, GkeView), r))
       /\ IF r.err # "none" THEN GkeTryNext
          ELSE IF NetworksFound(r.body)
            THEN /\ tried' = Append(tried,
                        [sub |-> sub, pool |-> GkeList[idx], ok |-> TRUE,
                         block |-> NextFree(reserved, GkeList[idx], GkeSize)])
                 /\ ret' = [block |-> NextFree(reserved, GkeList[idx], GkeSize),
                            pool |-> GkeList[idx]]
                 /\ pc' = "searched"
                 /\ UNCHANGED <<idx, stage>>
          ELSE GkeTryNext
  /\ UNCHANGED <<script, orgPolicy, exitCode, inp, sub, found, result, handoff, reserved,
                 rivalOps, phase>>
  /\ UNCHANGED policyVars

\* As GkeCallSearch, but an empty list falls back to the first pool's first
\* block.
GkeCallSearchDefault(s, list) ==
  /\ sub' = s /\ idx' = 1 /\ stage' = "lookup"
  /\ IF list = << >>
       THEN pc' = "searched"
            /\ ret' = [block |-> [pool |-> 1, start |-> 0, len |-> 1], pool |-> 1]
       ELSE pc' = "search" /\ UNCHANGED ret

\* Calling _find_one_available_cidr for sub-request s: the loop starts at the
\* first pool; over an empty list it returns None, None at once.
GkeCallSearch(s, list) ==
  /\ sub' = s /\ idx' = 1 /\ stage' = "lookup"
  /\ IF list = << >>
       THEN pc' = "searched" /\ ret' = NoResult
       ELSE pc' = "search" /\ UNCHANGED ret

\* As GkeReturnNone, but main writes the blocks found so far to the outputs
\* before it exits with status 1.
GkeReturnNonePartial ==
  /\ result' = [primary |-> NoBlock, pods |-> NoBlock, services |-> NoBlock,
                supernet |-> 0]
  /\ Exit(1)
  /\ LET primary == IF sub = "primary" THEN ret.block ELSE found["primary"].block
     IN handoff' = [primary |-> primary, pods |-> found["pods"].block,
                    services |-> NoBlock, supernet |-> 0,
                    subnet_ref |-> NoBlock, written |-> primary # NoBlock]

\* return None, None, None, None, None, None; main then exits with status 1.
GkeReturnNone ==
  /\ result' = [primary |-> NoBlock, pods |-> NoBlock, services |-> NoBlock,
                supernet |-> 0]
  /\ Exit(1)
  /\ UNCHANGED handoff

\* return host_project_id, vpc_name, primary_cidr, pods_cidr, services_cidr,
\* supernet_used; main checks primary_cidr and writes the outputs.
GkeReturn(primary, pods, services, supernet) ==
  /\ result' = [primary |-> primary, pods |-> pods, services |-> services,
                supernet |-> supernet]
  /\ IF primary = NoBlock
       THEN Exit(1) /\ UNCHANGED handoff
       ELSE /\ handoff' = [primary |-> primary, pods |-> pods,
                           services |-> services, supernet |-> supernet,
                           subnet_ref |-> NoBlock, written |-> TRUE]
            /\ Exit(0)

\* main (reserve-ips) and reserve_ips_in_infoblox up to the primary search.
reserve_ips_in_infoblox_start ==
  /\ script = "gke" /\ pc = "start" /\ phase = "plan"
  /\ IF inp.cfg = "missing" \/ inp.cfg = "incomplete"
        \/ (inp.purpose # "PSC Endpoint" /\ inp.cfg = "no_vpc")
       THEN GkeReturnNone /\ UNCHANGED <<sub, idx, stage, ret>>
       ELSE GkeCallSearch("primary", inp.list)
              /\ UNCHANGED <<exitCode, result, handoff>>
  /\ UNCHANGED <<script, orgPolicy, inp, found, calls, tried, reserved, rivalOps, phase>>
  /\ UNCHANGED policyVars

\* The primary search returned: fail, finish (not GKE), or go on to the pods.
reserve_ips_in_infoblox_primary ==
  /\ script = "gke" /\ pc = "searched" /\ sub = "primary"
  /\ found' = [found EXCEPT !["primary"] = ret]
  /\ IF ret.block = NoBlock
       THEN GkeReturnNone /\ UNCHANGED <<sub, idx, stage, ret>>
       ELSE IF inp.purpose # "GKE Cluster"
         THEN GkeReturn(ret.block, NoBlock, NoBlock, ret.pool)
                /\ UNCHANGED <<sub, idx, stage, ret>>
         ELSE IF inp.nrCfg # "ok"
           THEN GkeReturnNone /\ UNCHANGED <<sub, idx, stage, ret>>
           ELSE GkeCallSearch("pods", inp.nrList)
                  /\ UNCHANGED <<exitCode, result, handoff>>
  /\ UNCHANGED <<script, orgPolicy, inp, calls, tried, reserved, rivalOps, phase>>
  /\ UNCHANGED policyVars

\* The pods search returned: the services search is called next.
reserve_ips_in_infoblox_pods ==
  /\ script = "gke" /\ pc = "searched" /\ sub = "pods"
  /\ found' = [found EXCEPT !["pods"] = ret]
  /\ GkeCallSearch("services", inp.nrList)
  /\ UNCHANGED <<script, orgPolicy, exitCode, inp, result, handoff, calls, tried, reserved,
                 rivalOps, phase>>
  /\ UNCHANGED policyVars

\* The services search returned: both secondary blocks or nothing at all.
reserve_ips_in_infoblox_services ==
  /\ script = "gke" /\ pc = "searched" /\ sub = "services"
  /\ found' = [found EXCEPT !["services"] = ret]
  /\ IF found["pods"].block = NoBlock \/ ret.block = NoBlock
       THEN GkeReturnNone
       ELSE GkeReturn(found["primary"].block, found["pods"].block, ret.block,
                      found["primary"].pool)
  /\ UNCHANGED <<script, orgPolicy, inp, sub, idx, stage, ret, calls, tried, reserved,
                 rivalOps, phase>>
  /\ UNCHANGED policyVars

\* ------------------- full-subnet-automation: create-and-share-subnet (apply)
GcpCall(op, res) ==
  [op |-> op, pool |-> 0, block |-> NoBlock, view |-> "", sub |-> sub,
   etag |-> 0, phase |-> phase, res |-> res]

\* The apply job starts after reserve-ips, with the arguments of the apply:
\* the secondary ranges and their names (all given or not), the service
\* project id (given or not), the PSC host project name (mapped, not mapped,
\* not given).
GkeApplyStart ==
  /\ script = "gke" /\ pc = "planned" /\ phase = "plan"
  /\ phase' = "apply" /\ pc' = "creating" /\ exitCode' = -1
  /\ \E sec \in {"complete", "missing"}, sp \in BOOLEAN,
        ps \in {"ok", "none", "unmapped"} :
       /\ inp.purpose # "GKE Cluster" => sec = "complete"
       /\ inp.purpose = "PSC Endpoint" => sp
       /\ inp.purpose # "PSC Endpoint" => ps = "ok"
       /\ inp' = [inp EXCEPT !.secondary = sec, !.svcProject = sp, !.psc = ps]
  /\ UNCHANGED <<script, orgPolicy, sub, idx, stage, ret, found, result, handoff, calls,
                 tried, reserved, rivalOps>>
  /\ UNCHANGED policyVars

\* As create_subnet_in_gcp, but main goes on to share_subnet whatever the
\* create returned.
create_subnet_in_gcp_unchecked ==
  /\ script = "gke" /\ pc = "creating" /\ phase = "apply"
  /\ IF inp.purpose = "GKE Cluster" /\ inp.secondary # "complete"
       THEN Exit(1) /\ UNCHANGED calls
       ELSE \E r \in {"ok", "fail"} :
              /\ calls' = Append(calls, GcpCall("createSubnet", r))
              /\ pc' = "sharing" /\ UNCHANGED exitCode
  /\ UNCHANGED <<script, orgPolicy, inp, sub, idx, stage, ret, found, result, handoff,
                 tried, reserved, rivalOps, phase>>
  /\ UNCHANGED policyVars

\* As create_subnet_in_gcp, without the test of the secondary range details.
create_subnet_in_gcp_unvalidated ==
  /\ script = "gke" /\ pc = "creating" /\ phase = "apply"
  /\ \E r \in {"ok", "fail"} :
       /\ calls' = Append(calls, GcpCall("createSubnet", r))
       /\ IF r = "ok" THEN pc' = "sharing" /\ UNCHANGED exitCode
          ELSE Exit(1)
  /\ UNCHANGED <<script, orgPolicy, inp, sub, idx, stage, ret, found, result, handoff,
                 tried, reserved, rivalOps, phase>>
  /\ UNCHANGED policyVars

\* create_subnet_in_gcp: gcloud compute networks subnets create; main goes on
\* to share_subnet only when it returned True.
create_subnet_in_gcp ==
  /\ script = "gke" /\ pc = "creating" /\ phase = "apply"
  /\ IF inp.purpose = "GKE Cluster" /\ inp.secondary # "complete"
       THEN Exit(1) /\ UNCHANGED calls
       ELSE \E r \in {"ok", "fail"} :
              /\ calls' = Append(calls, GcpCall("createSubnet", r))
              /\ IF r = "ok" THEN pc' = "sharing" /\ UNCHANGED exitCode
                 ELSE Exit(1)
  /\ UNCHANGED <<script, orgPolicy, inp, sub, idx, stage, ret, found, result, handoff,
                 tried, reserved, rivalOps, phase>>
  /\ UNCHANGED policyVars

\* gcloud org-policies describe (check=False): the subnet is listed, is not,
\* the command failed (an empty policy is assumed), or its output is no
\* policy document (the exception makes share_subnet return False).
DescribeResults ==
  {IF subnet_path \in orgPolicy.allowed THEN "listed" ELSE "unlisted",
   "error", "garbage"}

\* allowed_values before the append: what the describe returned, or the empty
\* list of the policy assumed after a failed describe.
AllowedValuesRead ==
  IF calls # << >> /\ calls[Len(calls)].op = "describeOrgPolicy"
     /\ calls[Len(calls)].res = "unlisted"
    THEN orgPolicy.allowed ELSE {}

\* share_subnet up to its first write: the argument checks and the read.
share_subnet ==
  /\ script = "gke" /\ pc = "sharing" /\ phase = "apply"
  /\ IF inp.purpose = "PSC Endpoint"
       THEN IF inp.psc # "ok"
              THEN Exit(1) /\ UNCHANGED calls
              ELSE \E r \in {"ok", "fail"} :
                     /\ calls' = Append(calls, GcpCall("describeProject", r))
                     /\ IF r = "ok" THEN pc' = "binding" /\ UNCHANGED exitCode
                        ELSE Exit(1)
       ELSE IF ~inp.svcProject
              THEN Exit(1) /\ UNCHANGED calls
              ELSE \E r \in DescribeResults :
                     /\ calls' = Append(calls, GcpCall("describeOrgPolicy", r))
                     /\ IF r = "listed" THEN Exit(0)
                        ELSE IF r = "garbage" THEN Exit(1)
                        ELSE pc' = "setting" /\ UNCHANGED exitCode
  /\ UNCHANGED <<script, orgPolicy, inp, sub, idx, stage, ret, found, result, handoff,
                 tried, reserved, rivalOps, phase>>
  /\ UNCHANGED policyVars

\* As share_subnet_write, but a failed write is followed by the deletion of
\* the subnet created before.
share_subnet_write_compensating ==
  /\ script = "gke" /\ pc \in {"binding", "setting"} /\ phase = "apply"
  /\ \E r \in {"ok", "fail"} :
       /\ calls' = IF r = "ok"
                     THEN Append(calls, GcpCall(IF pc = "binding" THEN "addBinding"
                                                ELSE "setOrgPolicy", r))
                     ELSE calls \o <<GcpCall(IF pc = "binding" THEN "addBinding"
                                             ELSE "setOrgPolicy", r),
                                     GcpCall("deleteSubnet", "ok")>>
       /\ orgPolicy' = IF r = "ok" /\ pc = "setting"
                         THEN [orgPolicy EXCEPT
                                 !.allowed = AllowedValuesRead \cup {subnet_path}]
                         ELSE orgPolicy
       /\ IF r = "ok" THEN Exit(0) ELSE Exit(1)
  /\ UNCHANGED <<script, inp, sub, idx, stage, ret, found, result, handoff,
                 tried, reserved, rivalOps, phase>>
  /\ UNCHANGED policyVars

\* The write of share_subnet_with_psc_project (subnets add-iam-policy-binding)
\* or of share_subnet_with_service_project (org-policies set-policy).
share_subnet_write ==
  /\ script = "gke" /\ pc \in {"binding", "setting"} /\ phase = "apply"
  /\ \E r \in {"ok", "fail"} :
       /\ calls' = Append(calls, GcpCall(IF pc = "binding" THEN "addBinding"
                                         ELSE "setOrgPolicy", r))
       /\ orgPolicy' = IF r = "ok" /\ pc = "setting"
                         THEN [orgPolicy EXCEPT
                                 !.allowed = AllowedValuesRead \cup {subnet_path}]
                         ELSE orgPolicy
       /\ IF r = "ok" THEN Exit(0) ELSE Exit(1)
  /\ UNCHANGED <<script, inp, sub, idx, stage, ret, found, result, handoff,
                 tried, reserved, rivalOps, phase>>
  /\ UNCHANGED policyVars

\* --------------------------------- vertexai_iam_policy_v2: dry-run / apply
\* What the gcloud command can come back with, as run_gcloud_command sees it:
\* JSON on stdout, a nonzero return code, or stdout that is empty or no JSON.
GcloudResults == {"json", "nonzero", "garbage"}

\* Return codes of a gcloud command that failed.
ReturnCodes == {1, 2}

\* sys.exit(process.returncode) when the return code is not 0; sys.exit(1)
\* when stdout is empty or is not JSON.
GcloudExitCode(r, rc) == IF r \in {"nonzero", "stale"} THEN rc ELSE 1

\* projects set-iam-policy: the backend takes the write only when the etag it
\* carries is the policy's current etag.
\* "stale" is the nonzero return code of a write whose etag is out of date.
SetPolicyResults(doc) ==
  IF doc.etag = iam.etag THEN {"json", "nonzero"} ELSE {"stale"}

\* A test that finds an etag in every policy.
EtagMissingNever(doc) == FALSE

\* "etag" not in current_policy
EtagMissing(doc) == doc.etag = 0

\* main from the read of the policy to the end of the dry-run, or to the
\* decision of the apply.
policy_main_read ==
  /\ script = "policy" /\ pc = "start"
  /\ \E r \in GcloudResults, rc \in ReturnCodes :
       /\ calls' = Append(calls, [PolicyCall("getPolicy", 0) EXCEPT !.res = r])
       /\ IF r # "json"
            THEN Exit(GcloudExitCode(r, rc)) /\ UNCHANGED <<cur, modp, anyChanges, report, outcome, planEtag>>
            ELSE
              /\ cur' = iam
              /\ IF \/ inp.grant.sa /\ BundleUnknown(inp.grant.bundleSa)
                    \/ inp.grant.ad /\ BundleUnknown(inp.grant.bundleAd)
                   THEN Exit(1) /\ UNCHANGED <<modp, anyChanges, report, outcome, planEtag>>
                   ELSE
                     /\ modp' = [etag |-> iam.etag,
                                 bindings |-> MergeBindings(iam.bindings, inp.grant)]
                     /\ anyChanges' = any_changes_made(iam.bindings, inp.grant)
                     /\ IF phase = "plan"
                          THEN /\ report' = DryRunReport(cur'.bindings, modp'.bindings,
                                                         anyChanges')
                               /\ planEtag' = iam.etag
                               /\ Exit(0)
                               /\ UNCHANGED outcome
                          ELSE /\ UNCHANGED <<report, planEtag>>
                               /\ IF SameDump(cur'.bindings, modp'.bindings)
                                     /\ cur'.etag = modp'.etag
                                    THEN outcome' = "noop" /\ Exit(0)
                                    ELSE IF EtagMissing(cur')
                                      THEN outcome' = "error" /\ Exit(1)
                                      ELSE /\ pc' = "writing"
                                           /\ UNCHANGED <<outcome, exitCode>>
  /\ UNCHANGED <<script, orgPolicy, inp, sub, idx, stage, ret, found, result, handoff,
                 tried, reserved, rivalOps, phase, iam, m>>

\* main, apply: the write of modified_policy, carrying current_policy's etag.
policy_main_write ==
  /\ script = "policy" /\ pc = "writing" /\ phase = "apply"
  /\ \E r \in SetPolicyResults(modp), rc \in ReturnCodes :
       /\ calls' = Append(calls,
                           [PolicyCall("setPolicy", modp.etag) EXCEPT !.res = r])
       /\ IF r = "json"
            THEN /\ iam' = [etag |-> iam.etag + 1, bindings |-> modp.bindings]
                 /\ outcome' = "applied"
                 /\ Exit(0)
            ELSE /\ outcome' = "error"
                 /\ Exit(GcloudExitCode(r, rc))
                 /\ UNCHANGED iam
  /\ UNCHANGED <<script, orgPolicy, inp, sub, idx, stage, ret, found, result, handoff,
                 tried, reserved, rivalOps, phase, cur, modp, anyChanges,
                 report, planEtag, m>>

\* The apply job starts after the dry-run job.
PolicyApplyStart ==
  /\ script \in {"policy", "policy1"} /\ pc = "planned" /\ phase = "plan"
  /\ phase' = "apply" /\ pc' = "start" /\ exitCode' = -1
  /\ UNCHANGED <<script, orgPolicy, inp, sub, idx, stage, ret, found, result, handoff,
                 calls, tried, reserved, rivalOps>>
  /\ UNCHANGED policyVars

\* Another actor grants a role on the project: the policy gets a new etag.
OtherActorEditsPolicy ==
  /\ script \in {"policy", "policy1"}
  /\ rivalOps < MaxRivalOps
  /\ pc \notin {"applied", "failed", "crashed"}
  /\ \E role \in Roles, mem \in {SA, "user:u1"} :
       LET i == FirstBinding(iam.bindings, role) IN
       /\ IF i = 0 THEN TRUE ELSE mem \notin SeqSet(iam.bindings[i].members)
       /\ iam' = [etag |-> IF iam.etag = 0 THEN 0 ELSE iam.etag + 1,
                  bindings |->
                    IF i = 0
                      THEN Append(iam.bindings, [role |-> role, members |-> <<mem>>])
                      ELSE [iam.bindings EXCEPT ![i].members = Append(@, mem)]]
  /\ rivalOps' = rivalOps + 1
  /\ UNCHANGED <<script, orgPolicy, pc, exitCode, inp, sub, idx, stage, ret, found, result,
                 handoff, calls, tried, reserved, phase, cur, modp, anyChanges,
                 report, outcome, planEtag, m>>

\* ------------------------------------ vertexai_iam_policy (first version)
\* --mode apply: the script is started in apply mode.
PolicyV1Mode ==
  /\ script = "policy1" /\ pc = "start" /\ phase = "plan" /\ calls = << >>
  /\ phase' = "apply"
  /\ UNCHANGED <<script, orgPolicy, pc, exitCode, inp, sub, idx, stage, ret, found, result,
                 handoff, calls, tried, reserved, rivalOps>>
  /\ UNCHANGED policyVars

\* The first role main processes, and its member.
FirstRole(g) == IF SaRoles(g) # << >> THEN SaRoles(g)[1] ELSE AdRoles(g)[1]
FirstMember(g) == IF SaRoles(g) # << >> THEN SA ELSE GROUP

\* main of the first version. After the first add_or_update_member_in_policy
\* it evaluates sys.stdout.getvalue() (the flag returned is True on every
\* path); sys.stdout is a text stream without getvalue, so the AttributeError
\* ends the run with status 1. With no role to process the copy stays equal
\* to the policy read, so the write branch of the apply is never entered.
policy_v1_main ==
  /\ script = "policy1" /\ pc = "start"
  /\ \E r \in GcloudResults, rc \in ReturnCodes :
       /\ calls' = Append(calls, [PolicyCall("getPolicy", 0) EXCEPT !.res = r])
       /\ IF r # "json"
            THEN Exit(GcloudExitCode(r, rc)) /\ UNCHANGED <<cur, modp, anyChanges, report, outcome, planEtag>>
            ELSE
              /\ cur' = iam
              /\ IF \/ inp.grant.sa /\ BundleUnknown(inp.grant.bundleSa)
                    \/ inp.grant.ad /\ BundleUnknown(inp.grant.bundleAd)
                   THEN Exit(1) /\ UNCHANGED <<modp, anyChanges, report, outcome, planEtag>>
                   ELSE IF SaRoles(inp.grant) # << >> \/ AdRoles(inp.grant) # << >>
                     THEN /\ modp' = [etag |-> iam.etag,
                                      bindings |-> add_or_update_member_in_policy(
                                                     iam.bindings, FirstRole(inp.grant),
                                                     FirstMember(inp.grant))]
                          /\ Crash
                          /\ UNCHANGED <<anyChanges, report, outcome, planEtag>>
                     ELSE /\ modp' = iam
                          /\ anyChanges' = FALSE
                          /\ Exit(0)
                          /\ IF phase = "plan"
                               THEN /\ report' = "no_changes" /\ planEtag' = iam.etag
                                    /\ UNCHANGED outcome
                               ELSE /\ outcome' = "noop"
                                    /\ UNCHANGED <<report, planEtag>>
  /\ UNCHANGED <<script, orgPolicy, inp, sub, idx, stage, ret, found, result, handoff,
                 tried, reserved, rivalOps, phase, iam, m>>

\* ------------------------------------------- the merge on drawn inputs
\* The same argument written another way: the same role names in any order,
\* repeated or not, with or without empty tokens.
SameRoles(t1, t2) == SeqSet(t1) \ {0} = SeqSet(t2) \ {0}

\* As CurrentAfter, with modified_policy = current_policy (no copy).
CurrentAfterAliased(P, g) == MergeBindings(P, g)

\* modified_policy = json.loads(json.dumps(current_policy)): the merge works
\* on a deep copy, so current_policy holds after the loops what it held before.
CurrentAfter(P, g) == P

MergeOnce ==
  /\ script = "merge" /\ m.stage = "input"
  /\ m' = [m EXCEPT !.out = MergeBindings(m.P, m.g),
                    !.curAfter = CurrentAfter(m.P, m.g),
                    !.changed = any_changes_made(m.P, m.g),
                    !.report = DryRunReport(m.P, MergeBindings(m.P, m.g),
                                            any_changes_made(m.P, m.g)),
                    !.stage = "merged"]
  /\ UNCHANGED <<script, orgPolicy, pc, exitCode, inp, sub, idx, stage, ret, found, result,
                 handoff, calls, tried, reserved, rivalOps, phase, iam, cur,
                 modp, anyChanges, report, outcome, planEtag>>

MergeAgain ==
  /\ script = "merge" /\ m.stage = "merged"
  /\ m' = [m EXCEPT !.again = MergeBindings(m.out, m.g), !.stage = "again"]
  /\ UNCHANGED <<script, orgPolicy, pc, exitCode, inp, sub, idx, stage, ret, found, result,
                 handoff, calls, tried, reserved, rivalOps, phase, iam, cur,
                 modp, anyChanges, report, outcome, planEtag>>

MergePermuted ==
  /\ script = "merge" /\ m.stage = "again"
  /\ \E ts \in TokenSeqs, ta \in TokenSeqs :
       /\ SameRoles(ts, m.g.rolesSa) /\ SameRoles(ta, m.g.rolesAd)
       /\ m' = [m EXCEPT !.g2 = [m.g EXCEPT !.rolesSa = ts, !.rolesAd = ta],
                         !.permOut = MergeBindings(m.P, [m.g EXCEPT !.rolesSa = ts,
                                                                   !.rolesAd = ta]),
                         !.stage = "done"]
  /\ UNCHANGED <<script, orgPolicy, pc, exitCode, inp, sub, idx, stage, ret, found, result,
                 handoff, calls, tried, reserved, rivalOps, phase, iam, cur,
                 modp, anyChanges, report, outcome, planEtag>>

\* add_or_update_member_in_policy works on the lists of policy_dict itself
\* (binding["members"].append, policy_dict["bindings"].append): what the
\* caller's document holds after the call is what the call returns.
PolicyDictAfter(bindings, role, member) ==
  add_or_update_member_in_policy(bindings, role, member)

\* return policy_dict, ...: the value returned is the argument object.
ReturnsItsArgument == TRUE

\* One call of add_or_update_member_in_policy on a document holding m.P.
MergeCall ==
  /\ script = "merge" /\ m.stage = "done"
  /\ \E role \in Roles, member \in {SA, GROUP} :
       m' = [m EXCEPT !.docAfter = PolicyDictAfter(m.P, role, member),
                      !.returned = add_or_update_member_in_policy(m.P, role, member),
                      !.sameObject = ReturnsItsArgument,
                      !.stage = "called"]
  /\ UNCHANGED <<script, orgPolicy, pc, exitCode, inp, sub, idx, stage, ret, found, result,
                 handoff, calls, tried, reserved, rivalOps, phase, iam, cur,
                 modp, anyChanges, report, outcome, planEtag>>

\* ------------------------------------------- delete_infoblox (both versions)
\* The network of that CIDR exists on the backend. Its _ref is modelled by the
\* block itself: the scripts pass the reference on as they got it.
NetworkExists(res, b) == b # NoBlock /\ BlockUnits(b) \subseteq res

\* GET /network: a list with the network, an empty list, an HTTP error, or no
\* response at all.
FindResponses(res, b) ==
  {IF NetworkExists(res, b) THEN "found" ELSE "notfound", "http", "conn"}

\* DELETE /<ref>: deleted, an HTTP error, or no response at all.
DeleteResponses(res, b) ==
  IF NetworkExists(res, b) THEN {"deleted", "http", "conn"} ELSE {"http", "conn"}

\* The except block reads response: the first version set it to None before
\* the try and returns None / False; the second did not, and the unbound name
\* ends the run with an exception (status 1).
NoResponse == IF script = "delete1" THEN Exit(1) ELSE Crash

\* main, dry-run, with find_network: write subnet_ref when the network was
\* found, exit with status 1 otherwise.
find_network ==
  /\ script \in {"delete", "delete1"} /\ pc = "start" /\ phase = "plan"
  /\ \E r \in FindResponses(reserved, inp.subnet_cidr) :
       /\ calls' = Append(calls, [Call("find", inp.subnet_cidr.pool,
                                        inp.subnet_cidr, inp.view) EXCEPT !.res = r])
       /\ IF r = "found"
            THEN /\ handoff' = [handoff EXCEPT !.subnet_ref = inp.subnet_cidr,
                                               !.written = TRUE]
                 /\ Exit(0)
            ELSE /\ UNCHANGED handoff
                 /\ IF r = "conn" THEN NoResponse ELSE Exit(1)
  /\ UNCHANGED <<script, orgPolicy, inp, sub, idx, stage, ret, found, result, tried,
                 reserved, rivalOps, phase>>
  /\ UNCHANGED policyVars

\* The apply job starts with --subnet-ref: the dry-run's output, or the
\* reference of another network.
DeleteApplyStart ==
  /\ script \in {"delete", "delete1"} /\ pc = "planned" /\ phase = "plan"
  /\ \E given \in {handoff.subnet_ref, [pool |-> 1, start |-> 0, len |-> 1]} :
       inp' = [inp EXCEPT !.subnet_ref = given]
  /\ phase' = "apply" /\ pc' = "applying" /\ exitCode' = -1
  /\ UNCHANGED <<script, orgPolicy, sub, idx, stage, ret, found, result, handoff, calls,
                 tried, reserved, rivalOps>>
  /\ UNCHANGED policyVars

\* As delete_network, but the apply looks the network of the dry-run up again
\* and deletes what it finds.
delete_network_relookup ==
  /\ script \in {"delete", "delete1"} /\ pc = "applying" /\ phase = "apply"
  /\ \E r \in DeleteResponses(reserved, inp.subnet_cidr) :
       /\ calls' = calls \o
            <<[Call("find", inp.subnet_cidr.pool, inp.subnet_cidr, inp.view)
                 EXCEPT !.res = "found"],
              [Call("delete", inp.subnet_cidr.pool, inp.subnet_cidr, "")
                 EXCEPT !.res = r]>>
       /\ reserved' = IF r = "deleted" THEN reserved \ BlockUnits(inp.subnet_cidr)
                        ELSE reserved
       /\ IF r = "deleted" THEN Exit(0)
          ELSE IF r = "conn" THEN NoResponse ELSE Exit(1)
  /\ UNCHANGED <<script, orgPolicy, inp, sub, idx, stage, ret, found, result, handoff,
                 tried, rivalOps, phase>>
  /\ UNCHANGED policyVars

\* main, apply, with delete_network: one DELETE for args.subnet_ref.
delete_network ==
  /\ script \in {"delete", "delete1"} /\ pc = "applying" /\ phase = "apply"
  /\ \E r \in DeleteResponses(reserved, inp.subnet_ref) :
       /\ calls' = Append(calls, [Call("delete", inp.subnet_ref.pool,
                                        inp.subnet_ref, "") EXCEPT !.res = r])
       /\ reserved' = IF r = "deleted" THEN reserved \ BlockUnits(inp.subnet_ref)
                        ELSE reserved
       /\ IF r = "deleted" THEN Exit(0)
          ELSE IF r = "conn" THEN NoResponse ELSE Exit(1)
  /\ UNCHANGED <<script, orgPolicy, inp, sub, idx, stage, ret, found, result, handoff,
                 tried, rivalOps, phase>>
  /\ UNCHANGED policyVars

\* ------------------------------------------------------------ other actors
\* Another user of the backend reserves a free block.
OtherActorReserves ==
  /\ script \in {"v3", "v2", "gke"}
  /\ rivalOps < MaxRivalOps
  /\ pc \notin {"applied", "failed", "crashed"}
  /\ \E p \in Pools, n \in {1, 2} : \E s \in FreeStarts(reserved, p, n) :
       reserved' = reserved \cup BlockUnits([pool |-> p, start |-> s, len |-> n])
  /\ rivalOps' = rivalOps + 1
  /\ UNCHANGED <<script, orgPolicy, pc, exitCode, inp, sub, idx, stage, ret, found, result,
                 handoff, calls, tried, phase>>
  /\ UNCHANGED policyVars

\* A second run of the infoblox-v3 workflow against the same backend. Its
\* dry-run ends with the block next_available_network answers at that moment;
\* its apply posts that block.
OtherCalls(ph) == SelectSeq(calls, LAMBDA c : c.phase = ph)

OtherWorkflowPlan ==
  /\ script = "v3"
  /\ OtherCalls("otherPlan") = << >>
  /\ \E p \in Pools, prefix \in {24, 25} :
       /\ HasFree(reserved, p, prefix)
       /\ calls' = Append(calls, [op |-> "next", pool |-> p,
                                  block |-> NextFree(reserved, p, prefix),
                                  view |-> "default", sub |-> "other", etag |-> 0,
                                  phase |-> "otherPlan", res |-> "networks"])
  /\ UNCHANGED <<script, orgPolicy, pc, exitCode, inp, sub, idx, stage, ret, found, result,
                 handoff, tried, reserved, rivalOps, phase>>
  /\ UNCHANGED policyVars

OtherWorkflowApply ==
  /\ script = "v3"
  /\ rivalOps < MaxRivalOps
  /\ OtherCalls("otherPlan") # << >> /\ OtherCalls("otherApply") = << >>
  /\ LET b == OtherCalls("otherPlan")[1].block IN
     \E r \in CreateResponses(reserved, b) :
       /\ calls' = Append(calls, [op |-> "create", pool |-> 0, block |-> b,
                                  view |-> "default", sub |-> "other", etag |-> 0,
                                  phase |-> "otherApply", res |-> r])
       /\ reserved' = IF r = "created" THEN reserved \cup BlockUnits(b)
                      ELSE reserved
  /\ rivalOps' = rivalOps + 1
  /\ UNCHANGED <<script, orgPolicy, pc, exitCode, inp, sub, idx, stage, ret, found, result,
                 handoff, tried, phase>>
  /\ UNCHANGED policyVars

\* ------------------------------------------------------------------ Init
\* Each container starts empty or full.
InitReserved ==
  {{<<p, u>> : p \in full, u \in Units} : full \in SUBSET Pools}

NoInp == [list |-> << >>, view |-> "viewA", size |-> 24, proposed |-> NoBlock,
          nrList |-> << >>, nrView |-> "viewB", podsSize |-> 24,
          servicesSize |-> 25, purpose |-> "none", cfg |-> "ok", nrCfg |-> "ok",
          argsOk |-> TRUE, grant |-> NoGrant,
          secondary |-> "complete", svcProject |-> TRUE, psc |-> "ok",
          subnet_cidr |-> NoBlock, subnet_ref |-> NoBlock]

\* Policies with at most one binding per role, no member twice in a binding.
MemberLists == {<<"user:u1">>, <<SA>>, <<"user:u1", SA>>}
PolicyDocs ==
  {b \in UNION {[1..n -> [role : Roles, members : MemberLists]] : n \in 0..NumRoles} :
     \A i, j \in 1..Len(b) : b[i].role = b[j].role => i = j}

NoPolicy == [etag |-> 0, bindings |-> << >>]
NoMerge == [P |-> << >>, g |-> NoGrant, g2 |-> NoGrant, out |-> << >>,
            changed |-> FALSE, report |-> "", again |-> << >>,
            permOut |-> << >>, docAfter |-> << >>, returned |-> << >>,
            sameObject |-> FALSE, curAfter |-> << >>, stage |-> "off"]

InitNoPolicy ==
  /\ iam = NoPolicy /\ cur = NoPolicy /\ modp = NoPolicy
  /\ anyChanges = FALSE /\ report = "" /\ outcome = "none" /\ planEtag = 0
  /\ m = NoMerge

InitCommon ==
  /\ pc = "start" /\ phase = "plan" /\ exitCode = -1
  /\ sub = "single" /\ idx = 0 /\ stage = "lookup" /\ ret = NoResult
  /\ found = [s \in Subs |-> NoResult]
  /\ result = NoResult
  /\ handoff = NoHandoff
  /\ calls = << >> /\ tried = << >>
  /\ rivalOps = 0

InitV3 ==
  /\ script = "v3"
  /\ \E l \in PoolLists, sz \in Prefixes :
       inp = [NoInp EXCEPT !.list = l, !.size = sz]
  /\ orgPolicy = NoOrgPolicy

InitV2 ==
  /\ script = "v2"
  /\ \E p \in Pools, sz \in Prefixes, ok \in BOOLEAN :
       inp = [NoInp EXCEPT !.list = <<p>>, !.size = sz, !.argsOk = ok]
  /\ orgPolicy = NoOrgPolicy

\* The deletion scripts: the CIDR to delete is a whole container's network.
InitDelete ==
  /\ script \in {"delete", "delete1"}
  /\ \E p \in Pools :
       inp = [NoInp EXCEPT !.subnet_cidr = [pool |-> p, start |-> 0,
                                            len |-> UnitsPerPool]]
  /\ orgPolicy = NoOrgPolicy

\* Pool lists of the non-empty "supernets" entries of the mappings.
DistinctLists == {l \in PoolLists : \A i, j \in 1..Len(l) : l[i] = l[j] => i = j}

InitGke ==
  /\ script = "gke"
  /\ \E l \in DistinctLists \ {<< >>}, nl \in DistinctLists,
        sz \in {24, 25}, ps \in {24, 25},
        pu \in {"GKE Cluster", "PSC Endpoint", "Standard"},
        c \in {"ok", "missing", "incomplete", "no_vpc"},
        nc \in {"ok", "no_key", "missing"} :
       /\ (c # "ok" \/ pu # "GKE Cluster") =>
             (l = <<1>> /\ nl = << >> /\ sz = 24 /\ ps = 24)
       /\ (pu # "GKE Cluster" \/ nc # "ok") => (nl = << >> /\ ps = 24)
       /\ (pu # "GKE Cluster") => nc = "ok"
       /\ inp = [NoInp EXCEPT !.list = l, !.nrList = nl, !.size = sz,
                              !.podsSize = ps, !.purpose = pu, !.cfg = c,
                              !.nrCfg = nc]
  /\ \E a \in {{}, {OtherSubnet}, {OtherSubnet, subnet_path}} :
       /\ (inp.purpose # "Standard" \/ inp.cfg # "ok") => a = {}
       /\ orgPolicy = [allowed |-> a, atStart |-> a]

\* Arguments argparse accepts: a principal comes with roles or a bundle.
SaGrants ==
  {[NoGrant EXCEPT !.sa = TRUE, !.rolesSa = t] : t \in TokenSeqs \ {<< >>}}
    \cup {[NoGrant EXCEPT !.sa = TRUE, !.bundleSa = "CUSTOM_BUNDLE_1"]}
AdChoices == {<< >>} \cup {<<r>> : r \in Roles}
Grants ==
  {[g EXCEPT !.ad = (t # << >>), !.rolesAd = t] : g \in SaGrants, t \in AdChoices}

PolicyGrants ==
  {[NoGrant EXCEPT !.sa = TRUE, !.rolesSa = <<r>>] : r \in Roles}
    \cup {[NoGrant EXCEPT !.sa = TRUE, !.rolesSa = <<1>>, !.ad = TRUE, !.rolesAd = <<2>>],
          [NoGrant EXCEPT !.sa = TRUE, !.bundleSa = "CUSTOM_BUNDLE_1"],
          [NoGrant EXCEPT !.sa = TRUE, !.bundleSa = "NO_SUCH_BUNDLE"],
          [NoGrant EXCEPT !.ad = TRUE, !.rolesAd = <<1>>, !.bundleAd = "NO_SUCH_BUNDLE"],
          [NoGrant EXCEPT !.sa = TRUE, !.rolesSa = <<1>>,
                          !.ad = TRUE, !.bundleAd = "NO_SUCH_BUNDLE"]}

\* Arguments of the first version: one role, a role already granted or not,
\* or only empty tokens.
PolicyV1Grants ==
  {[NoGrant EXCEPT !.sa = TRUE, !.rolesSa = <<r>>] : r \in Tokens}
    \cup {[NoGrant EXCEPT !.ad = TRUE, !.rolesAd = <<1>>]}

InitPolicy ==
  /\ \/ /\ script = "policy"
        /\ inp \in {[NoInp EXCEPT !.grant = g] : g \in PolicyGrants}
     \/ /\ script = "policy1"
        /\ inp \in {[NoInp EXCEPT !.grant = g] : g \in PolicyV1Grants}
  /\ iam \in [etag : {0, 1}, bindings : PolicyDocs]
  /\ orgPolicy = NoOrgPolicy
  /\ cur = NoPolicy /\ modp = NoPolicy
  /\ anyChanges = FALSE /\ report = "" /\ outcome = "none" /\ planEtag = 0
  /\ m = NoMerge

Init ==
  /\ InitCommon
  /\ \/ reserved \in InitReserved /\ (InitV3 \/ InitV2 \/ InitGke \/ InitDelete)
          /\ InitNoPolicy
     \/ reserved = {} /\ InitPolicy

InitMerge ==
  /\ InitCommon
  /\ script = "merge" /\ inp = NoInp /\ reserved = {} /\ orgPolicy = NoOrgPolicy
  /\ iam = NoPolicy /\ cur = NoPolicy /\ modp = NoPolicy
  /\ anyChanges = FALSE /\ report = "" /\ outcome = "none" /\ planEtag = 0
  /\ m \in {[NoMerge EXCEPT !.P = b, !.g = g, !.stage = "input"] :
              b \in PolicyDocs, g \in Grants}

NextMerge == MergeOnce \/ MergeAgain \/ MergePermuted \/ MergeCall

SpecMerge == InitMerge /\ [][NextMerge]_vars

Next ==
  \/ V3DryRunStart
  \/ find_next_available_cidr_lookup
  \/ find_next_available_cidr_next
  \/ V3DryRunFinish
  \/ V3ApplyStart
  \/ reserve_cidr_v3
  \/ V2Start
  \/ find_next_available_cidr_v2_lookup
  \/ find_next_available_cidr_v2_next
  \/ V2DryRunFinish
  \/ V2ApplyStart
  \/ reserve_cidr_v2
  \/ reserve_ips_in_infoblox_start
  \/ find_one_available_cidr_lookup
  \/ find_one_available_cidr_next
  \/ reserve_ips_in_infoblox_primary
  \/ reserve_ips_in_infoblox_pods
  \/ reserve_ips_in_infoblox_services
  \/ policy_main_read
  \/ policy_main_write
  \/ PolicyApplyStart
  \/ OtherActorReserves
  \/ OtherActorEditsPolicy
  \/ GkeApplyStart
  \/ create_subnet_in_gcp
  \/ share_subnet
  \/ share_subnet_write
  \/ OtherWorkflowPlan
  \/ OtherWorkflowApply
  \/ PolicyV1Mode
  \/ policy_v1_main
  \/ find_network
  \/ DeleteApplyStart
  \/ delete_network

Spec == Init /\ [][Next]_vars

\* The steps of the running script. Every step is straight-line code around
\* at most one backend call, so it completes once that call returns or times
\* out. The start of an Apply job and the other users of the backends are not
\* steps of the invocation.
ProgramStep ==
  \/ V3DryRunStart
  \/ find_next_available_cidr_lookup
  \/ find_next_available_cidr_next
  \/ V3DryRunFinish
  \/ reserve_cidr_v3
  \/ V2Start
  \/ find_next_available_cidr_v2_lookup
  \/ find_next_available_cidr_v2_next
  \/ V2DryRunFinish
  \/ reserve_cidr_v2
  \/ reserve_ips_in_infoblox_start
  \/ find_one_available_cidr_lookup
  \/ find_one_available_cidr_next
  \/ reserve_ips_in_infoblox_primary
  \/ reserve_ips_in_infoblox_pods
  \/ reserve_ips_in_infoblox_services
  \/ policy_main_read
  \/ policy_main_write
  \/ create_subnet_in_gcp
  \/ share_subnet
  \/ share_subnet_write
  \/ policy_v1_main
  \/ find_network
  \/ delete_network

\* The scripts under the assumption that every backend call returns or times
\* out: a step that stays possible is eventually taken.
SpecLive == Init /\ [][Next]_vars /\ WF_vars(ProgramStep)

\* ---------------------------------------------------------------- claims
TriedOf(s) == SelectSeq(tried, LAMBDA t : t.sub = s)
ListOf(s) == IF s \in {"single", "primary"} THEN inp.list ELSE inp.nrList
CallsOf(ph) == SelectSeq(calls, LAMBDA c : c.phase = ph)
CallsFor(s) == SelectSeq(calls, LAMBDA c : c.sub = s)

C2_ApplyCommitsOnlyTheProposedBlock ==
  (script \in {"v3", "v2"} /\ phase = "apply") =>
    LET ac == CallsOf("apply") IN
    /\ \A i \in 1..Len(ac) : ac[i].op = "create" /\ ac[i].block = inp.proposed
    /\ Len(ac) <= 1
    /\ inp.proposed \in {handoff.primary, NoBlock}
    /\ (pc \in {"applied", "failed", "crashed"} /\ inp.proposed # NoBlock)
         => Len(ac) = 1
    /\ pc = "applied" => (Len(ac) = 1 /\ ac[1].res = "created" /\ exitCode = 0)
    /\ (Len(ac) = 1 /\ ac[1].res # "created")
         => (pc \in {"failed", "crashed"} /\ exitCode = 1)

C2_Witness ==
  /\ script = "v3" /\ phase = "apply" /\ pc = "failed"
  /\ inp.proposed # NoBlock /\ ~IsFree(reserved, inp.proposed)
  /\ Len(CallsOf("apply")) = 1 /\ calls[Len(calls)].res = "http"

\* C3 (as claimed): in the policy apply, an etag that differs from the one the
\* dry-run read ends the apply without a setPolicy write.
C3_StaleTokenIsConflict ==
  (script = "policy" /\ phase = "apply" /\ pc # "start" /\ cur.etag # planEtag)
    => /\ pc # "writing"
       /\ \A i \in 1..Len(calls) : calls[i].op # "setPolicy"

\* C4 (as claimed): no backend call is issued for a sub-request after a failed
\* one: none for pods or services after a failed primary search, none for
\* services after a failed pods search.
C4_StopsAtFirstFailure ==
  script = "gke" =>
    /\ CallsFor("pods") # << >> => found["primary"].block # NoBlock
    /\ CallsFor("services") # << >> =>
         (found["primary"].block # NoBlock /\ found["pods"].block # NoBlock)

\* C5 (as claimed): when primary and pods were found and the services search
\* failed, the value returned names the blocks found.
C5_PartialResultKeepsSuccesses ==
  (/\ script = "gke" /\ pc = "failed" /\ sub = "services"
   /\ found["primary"].block # NoBlock /\ found["pods"].block # NoBlock
   /\ found["services"].block = NoBlock)
    => (result.primary = found["primary"].block
        /\ result.pods = found["pods"].block)

\* C6: merging the same grants into the merged bindings changes nothing: the
\* binding list is the same, so no member and no binding is added.
C6_MergeIdempotent ==
  m.stage \in {"again", "done"} =>
    /\ m.again = m.out
    /\ Pairs(m.again) = Pairs(m.out)
    /\ Len(m.again) = Len(m.out)

C6_Witness ==
  /\ m.stage = "again" /\ m.out # m.P
  /\ Len(m.out) > Len(m.P) /\ Pairs(m.out) # Pairs(m.P)

\* C7: the merge keeps every (role, member) pair and every binding of the
\* input, those the grants do not name included.
C7_MergeNeverRemoves ==
  m.stage \in {"merged", "again", "done"} =>
    /\ Pairs(m.P) \subseteq Pairs(m.out)
    /\ \A i \in 1..Len(m.P) :
         \E j \in 1..Len(m.out) :
           /\ m.out[j].role = m.P[i].role
           /\ SeqSet(m.P[i].members) \subseteq SeqSet(m.out[j].members)

C7_Witness ==
  /\ m.stage = "merged" /\ m.out # m.P
  /\ \E pr \in Pairs(m.P) : pr[2] = "user:u1" /\ pr \in Pairs(m.out)
  /\ \E i \in 1..Len(m.P) :
       /\ m.P[i].role \notin SeqSet(SaRoles(m.g)) \cup SeqSet(AdRoles(m.g))
       /\ m.P[i] \in SeqSet(m.out)

\* C8 (as claimed): changed is true exactly when the merge added a binding or
\* a member, and with nothing added the dry-run reports no changes.
C8_ChangedIffAdded ==
  m.stage \in {"merged", "again", "done"} =>
    /\ m.changed <=> (m.out # m.P)
    /\ m.out = m.P => m.report = "no_changes"

\* C9: the same role names given in another order, repeated or not, yield the
\* same bindings with the same members.
C9_MergeOrderIndependent ==
  m.stage = "done" =>
    /\ BindingSet(m.permOut) = BindingSet(m.out)
    /\ Pairs(m.permOut) = Pairs(m.out)

C9_Witness ==
  /\ m.stage = "done" /\ m.g2.rolesSa # m.g.rolesSa
  /\ Len(m.g.rolesSa) = 2 /\ m.g.rolesSa[1] # m.g.rolesSa[2]
  /\ m.g2.rolesSa = <<m.g.rolesSa[2], m.g.rolesSa[1]>>
  /\ 0 \notin SeqSet(m.g.rolesSa)
  /\ Len(m.out) > Len(m.P)

\* C10: a step of the plan leaves the backend as it is, and the calls the
\* plan has issued are reads (container lookups, next-available previews,
\* getPolicy).
C10_PlanIsReadOnly ==
  [][(phase' = "plan" /\ rivalOps' = rivalOps) =>
       /\ reserved' = reserved
       /\ iam' = iam
       /\ \A i \in 1..Len(calls') :
            calls'[i].phase = "plan" => calls'[i].op \in ReadOps]_vars

C10_Witness ==
  /\ script = "gke" /\ pc = "planned" /\ phase = "plan"
  /\ CallsFor("primary") # << >> /\ CallsFor("pods") # << >>
  /\ CallsFor("services") # << >>
  /\ \A i \in 1..Len(calls) : calls[i].op \in {"lookup", "next"}

\* The apply has read the policy and computed the merge from it.
PolicyApplyMerged ==
  LET ac == CallsOf("apply") IN
  /\ script \in {"policy", "policy1"} /\ phase = "apply"
  /\ Len(ac) >= 1 /\ ac[1].op = "getPolicy" /\ ac[1].res = "json"
  /\ ~(inp.grant.sa /\ BundleUnknown(inp.grant.bundleSa))
  /\ ~(inp.grant.ad /\ BundleUnknown(inp.grant.bundleAd))
ApplyMerged == script = "policy" /\ PolicyApplyMerged
SetPolicyCalls == SelectSeq(calls, LAMBDA c : c.op = "setPolicy")

\* C11 (as claimed): in the policy apply of either version of the script,
\* when nobody else has changed the policy (its etag is the one any dry-run
\* saw) and the merge leaves the bindings of the policy read as they are, the
\* apply issues no setPolicy and ends successfully with nothing applied (NoOp).
C11_SatisfiedGrantsAreNoOp ==
  (PolicyApplyMerged /\ rivalOps = 0 /\ modp.bindings = cur.bindings) =>
    /\ SetPolicyCalls = << >>
    /\ pc = "applied" /\ exitCode = 0 /\ outcome = "noop"

\* The same for vertexai_iam_policy_v2 alone, where it holds.
V2SatisfiedGrantsAreNoOp ==
  (ApplyMerged /\ modp.bindings = cur.bindings) =>
    /\ SetPolicyCalls = << >>
    /\ pc = "applied" /\ exitCode = 0 /\ outcome = "noop"
    /\ Len(CallsOf("apply")) = 1

\* C12 (as claimed): in the policy apply, whenever the merge adds a binding or
\* a member, a write is issued.
C12_MutationIsWritten ==
  (ApplyMerged /\ pc \in Terminal /\ modp.bindings # cur.bindings) =>
    Len(SetPolicyCalls) = 1

\* C12 (amended): in the policy apply, when the policy read carries an etag
\* and the merge adds a binding or a member, exactly one write is issued, it
\* carries the etag of the policy the merge was computed from, and the outcome
\* is Applied exactly when that write succeeds.
C12_WriteCarriesReadEtag ==
  (ApplyMerged /\ modp.bindings # cur.bindings /\ cur.etag # 0) =>
    /\ pc \in Terminal \cup {"writing"}
    /\ pc = "writing" => SetPolicyCalls = << >>
    /\ pc \in Terminal =>
         /\ Len(SetPolicyCalls) = 1
         /\ SetPolicyCalls[1].etag = cur.etag
         /\ SetPolicyCalls[1] = calls[Len(calls)]
         /\ (outcome = "applied") <=> (SetPolicyCalls[1].res = "json")
         /\ outcome = "applied" =>
              (pc = "applied" /\ exitCode = 0 /\ iam.bindings = modp.bindings)
         /\ outcome # "applied" => (pc = "failed" /\ exitCode # 0)

C12_Witness ==
  /\ ApplyMerged /\ modp.bindings # cur.bindings /\ cur.etag # 0
  /\ pc = "applied" /\ outcome = "applied"
  /\ Len(SetPolicyCalls) = 1 /\ SetPolicyCalls[1].etag = cur.etag
  /\ iam.bindings = modp.bindings /\ iam.etag # cur.etag

\* C13 (as claimed): a write the backend refuses as stale ends the apply with
\* the outcome Conflict, which no other backend error produces.
C13_StaleWriteIsConflict ==
  (script = "policy" /\ SetPolicyCalls # << >>) =>
    LET w == SetPolicyCalls[Len(SetPolicyCalls)] IN
    /\ w.res = "stale" => outcome = "conflict"
    /\ w.res = "nonzero" => outcome # "conflict"

\* Successful createReservation calls, of either workflow.
Created == SelectSeq(calls, LAMBDA c : c.op = "create" /\ c.res = "created")
Overlap(b1, b2) == BlockUnits(b1) \cap BlockUnits(b2) # {}

\* C14: with two infoblox-v3 workflows on one backend whose create is atomic,
\* no two successful creates cover a common address; each workflow creates
\* only the block its own dry-run proposed; and an apply whose block the other
\* workflow has already created ends failed with status 1.
C14_OneApplyPerBlock ==
  script = "v3" =>
    /\ \A i, j \in 1..Len(Created) :
         Overlap(Created[i].block, Created[j].block) => i = j
    /\ \A i \in 1..Len(calls) :
         /\ (calls[i].phase = "apply") => calls[i].block = inp.proposed
         /\ (calls[i].phase = "apply" /\ calls[i].res = "created")
              => calls[i].block = handoff.primary
         /\ (calls[i].phase = "otherApply")
              => calls[i].block = OtherCalls("otherPlan")[1].block
    /\ \A i, j \in 1..Len(calls) :
         (/\ i < j /\ calls[i].op = "create" /\ calls[i].res = "created"
          /\ calls[j].op = "create" /\ Overlap(calls[i].block, calls[j].block))
           => /\ calls[j].res # "created"
              /\ calls[j].phase = "apply" => (pc \in {"failed", "crashed"}
                                              /\ exitCode = 1)

C14_Witness ==
  /\ script = "v3" /\ pc = "failed" /\ exitCode = 1
  /\ OtherCalls("otherPlan") # << >>
  /\ OtherCalls("otherPlan")[1].block = handoff.primary
  /\ Len(Created) = 1 /\ Created[1].phase = "otherApply"
  /\ Len(CallsOf("apply")) = 1 /\ CallsOf("apply")[1].res = "http"
  /\ CallsOf("apply")[1].block = Created[1].block

\* Calls that undo an earlier step.
CompensatingOps == {"deleteSubnet", "deleteNetwork", "release", "removeBinding"}
FailedResults == {"fail", "garbage", "conn", "http", "json"}

\* C15: the compound workflow issues no call that undoes an earlier step,
\* issues no call twice (no retry), and in the apply a failed call is the last
\* call of the invocation: after a subnet was created and sharing it failed,
\* the apply ends with status 1 and the subnet is left as created.
C15_NoCompensationNoRetry ==
  script = "gke" =>
    /\ \A i \in 1..Len(calls) : calls[i].op \notin CompensatingOps
    /\ \A i, j \in 1..Len(calls) :
         (/\ calls[i].op = calls[j].op /\ calls[i].sub = calls[j].sub
          /\ calls[i].pool = calls[j].pool /\ calls[i].phase = calls[j].phase)
           => i = j
    /\ \A i \in 1..Len(calls) :
         (calls[i].phase = "apply" /\ calls[i].res \in FailedResults)
           => (i = Len(calls) /\ pc = "failed" /\ exitCode = 1)
    /\ (pc = "failed" /\ phase = "plan" /\ sub = "services") =>
         \A i \in 1..Len(calls) : calls[i].op \in {"lookup", "next"}

C15_Witness ==
  /\ script = "gke" /\ phase = "apply" /\ pc = "failed"
  /\ Len(calls) >= 3
  /\ \E i \in 1..Len(calls) : calls[i].op = "createSubnet" /\ calls[i].res = "ok"
  /\ calls[Len(calls)].op \in {"setOrgPolicy", "addBinding"}
  /\ calls[Len(calls)].res = "fail"

\* The calls this workflow issued for the search of sub-request s.
SearchCalls(s) ==
  SelectSeq(calls, LAMBDA c : c.sub = s /\ c.phase = "plan"
                               /\ c.op \in {"lookup", "next"})
Lookups(c, i) == Cardinality({j \in 1..i : c[j].op = "lookup"})

\* C16 (as claimed): with a prefix length outside 1..32 the dry-run issues no
\* backend call.
C16_PrefixRangeChecked ==
  (script \in {"v3", "v2", "gke"} /\ inp.size \notin 1..32) =>
    CallsOf("plan") = << >>

\* C17: a search over an empty pool list tries no pool, issues no backend
\* call and ends without a block; the dry-run of infoblox-v3 then exits 1.
C17_EmptyListNoCalls ==
  /\ script \in {"v3", "gke"} =>
       \A s \in Subs :
         ListOf(s) = << >> =>
           /\ TriedOf(s) = << >> /\ SearchCalls(s) = << >>
           /\ (pc = "searched" /\ sub = s) => ret = NoResult
  /\ (script = "v3" /\ inp.list = << >> /\ phase = "plan") =>
       /\ CallsOf("plan") = << >> /\ handoff = NoHandoff
       /\ pc \in {"start", "failed"}
       /\ pc = "failed" => exitCode = 1

C17_Witness ==
  /\ script = "gke" /\ inp.nrList = << >> /\ inp.purpose = "GKE Cluster"
  /\ pc = "searched" /\ sub = "pods" /\ ret = NoResult
  /\ SearchCalls("pods") = << >> /\ TriedOf("pods") = << >>
  /\ SearchCalls("primary") # << >>

\* The pools a search result names.
AttemptedInResult(r) == IF r = NoResult THEN << >> ELSE <<r.pool>>

\* C18 (as claimed): when every pool failed, the value the search returns
\* lists the pools tried, in the order tried.
C18_ExhaustedListsPools ==
  (script \in {"v3", "gke"} /\ pc = "searched"
   /\ (\A i \in 1..Len(TriedOf(sub)) : ~TriedOf(sub)[i].ok)) =>
    AttemptedInResult(ret) = [i \in 1..Len(TriedOf(sub)) |-> TriedOf(sub)[i].pool]

\* C19: within a search the k-th container lookup is for the k-th pool of the
\* list; a next-available request directly follows the successful lookup of
\* the same pool; every call that is followed by another call of the search
\* is a failed one or a successful lookup followed by its next-available
\* request; a next-available answer with a network is the last call.
C19_OnePoolAtATimeInOrder ==
  script \in {"v3", "gke"} =>
    \A s \in Subs :
      LET c == SearchCalls(s)
          l == ListOf(s)
      IN \A i \in 1..Len(c) :
           /\ Lookups(c, i) <= Len(l)
           /\ c[i].pool = l[Lookups(c, i)]
           /\ c[i].op = "next" =>
                (i > 1 /\ c[i-1].op = "lookup" /\ c[i-1].res = "found"
                 /\ c[i-1].pool = c[i].pool)
           /\ (c[i].op = "next" /\ c[i].res = "found") => i = Len(c)
           /\ i < Len(c) =>
                IF c[i].op = "lookup" /\ c[i].res = "found"
                  THEN c[i+1].op = "next"
                  ELSE c[i].res = "notfound" /\ c[i+1].op = "lookup"

C19_Witness ==
  /\ script = "v3" /\ pc = "searched" /\ ret # NoResult
  /\ Len(inp.list) = 2 /\ inp.list[1] # inp.list[2]
  /\ Len(SearchCalls("single")) = 4
  /\ SearchCalls("single")[2].op = "next"
  /\ SearchCalls("single")[2].res = "notfound"
  /\ SearchCalls("single")[4].res = "found"
  /\ SearchCalls("single")[4].pool = inp.list[2]

WellFormed(bindings) ==
  /\ \A i, j \in 1..Len(bindings) : bindings[i].role = bindings[j].role => i = j
  /\ \A i \in 1..Len(bindings) :
       \A k, l \in 1..Len(bindings[i].members) :
         bindings[i].members[k] = bindings[i].members[l] => k = l

\* C21: merging grants into a policy with at most one binding per role and no
\* member twice in a binding yields such a policy, also when the grants are
\* merged again or given in another order.
C21_MergeKeepsWellFormed ==
  (m.stage \in {"merged", "again", "done", "called"} /\ WellFormed(m.P)) =>
    /\ WellFormed(m.out)
    /\ m.stage # "merged" => WellFormed(m.again)
    /\ m.stage \in {"done", "called"} => WellFormed(m.permOut)
    /\ m.stage = "called" => WellFormed(m.returned)

C21_Witness ==
  /\ m.stage = "done" /\ WellFormed(m.P) /\ m.P # << >>
  /\ Len(m.out) > Len(m.P)
  /\ \E i \in 1..Len(m.P) : Len(m.out[i].members) > Len(m.P[i].members)
  /\ m.g.sa /\ m.g.ad

\* The invocation's arguments or configuration fail one of the script's own
\* checks.
InvalidInput ==
  \/ script \in {"v3", "v2"} /\ phase = "apply" /\ inp.proposed = NoBlock
  \/ script = "gke" /\ phase = "apply"
       /\ (IF inp.purpose = "PSC Endpoint" THEN inp.psc # "ok" ELSE ~inp.svcProject)
  \/ script = "gke" /\ phase = "plan"
       /\ (inp.cfg \in {"missing", "incomplete"}
           \/ (inp.purpose = "GKE Cluster" /\ inp.nrCfg # "ok"))
  \/ script = "policy"
       /\ \/ inp.grant.sa /\ BundleUnknown(inp.grant.bundleSa)
          \/ inp.grant.ad /\ BundleUnknown(inp.grant.bundleAd)

\* C22 (as claimed): an invocation whose input fails validation has issued no
\* backend call.
C22_ValidationBeforeCalls ==
  InvalidInput => CallsOf(phase) = << >>

\* The search for sub-request s ran over its whole list and found no block.
SearchFailed(s) ==
  /\ TriedOf(s) # << >>
  /\ Len(TriedOf(s)) = Len(ListOf(s))
  /\ \A i \in 1..Len(TriedOf(s)) : ~TriedOf(s)[i].ok

\* Position in the call log of the last call made for sub-request s, 0: none.
LastCallFor(s) ==
  IF \E i \in 1..Len(calls) : calls[i].sub = s /\ calls[i].phase = phase
  THEN CHOOSE i \in 1..Len(calls) :
         /\ calls[i].sub = s /\ calls[i].phase = phase
         /\ \A j \in (i + 1)..Len(calls) :
              ~(calls[j].sub = s /\ calls[j].phase = phase)
  ELSE 0

\* A failed call of the subnet scripts' Apply is the last call of that Apply.
FailedApplyCallIsLast ==
  (script \in {"v3", "v2", "gke"} /\ phase = "apply") =>
    \A i \in 1..Len(calls) :
      (calls[i].phase = "apply" /\ calls[i].res \in FailedResults) =>
        \A j \in (i + 1)..Len(calls) : calls[j].phase # "apply"

\* C23 (as claimed): after the first failed step the invocation issues no
\* further backend call: a sub-request search that found no block is followed
\* by no call of the invocation, and a failed call of Apply is its last call.
C23_NoCallAfterFailedStep ==
  /\ \A s \in {"single", "primary", "pods", "services"} :
       SearchFailed(s) =>
         \A j \in (LastCallFor(s) + 1)..Len(calls) : calls[j].phase # phase
  /\ FailedApplyCallIsLast

\* C24 (as claimed): a finished invocation has status 0 exactly when its phase
\* succeeded, and status 1 whenever it failed, failures of the policy backend
\* command included.
C24_ExitStatusZeroOrOne ==
  pc \in Terminal =>
    /\ (exitCode = 0) <=> (pc \in {"planned", "applied"})
    /\ pc \in {"failed", "crashed"} => exitCode = 1

\* Every failed invocation has a nonzero status, and the subnet scripts fail
\* with status 1.
FailureIsNonzero ==
  pc \in Terminal =>
    /\ (exitCode = 0) <=> (pc \in {"planned", "applied"})
    /\ (pc \in {"failed", "crashed"} /\ script \in {"v3", "v2", "gke"}) => exitCode = 1

\* C25: a search issues at most two backend calls per pool of its list and
\* tries no pool a second time; and when every backend call returns or times
\* out, an invocation that is running eventually ends: Planned or Applied, or
\* failed.
C25_InvocationTerminates ==
  /\ [](script \in {"v3", "v2", "gke"} =>
          \A s \in Subs :
            /\ Len(SearchCalls(s)) <= 2 * Len(ListOf(s))
            /\ Len(TriedOf(s)) <= Len(ListOf(s)))
  /\ (pc \notin Terminal) ~> (pc \in Terminal)

C25_Witness ==
  /\ script = "v3" /\ phase = "apply" /\ pc = "applied"
  /\ Len(inp.list) = 2
  /\ Len(SearchCalls("single")) = 2 * Len(inp.list)
  /\ Len(TriedOf("single")) = Len(inp.list)

\* C26 (as claimed): in a successful GKE plan the blocks proposed for pods and
\* for services have no address in common.
C26_PodsAndServicesDisjoint ==
  (script = "gke" /\ phase = "plan" /\ pc = "planned"
   /\ inp.purpose = "GKE Cluster") =>
    ~Overlap(handoff.pods, handoff.services)

\* The createReservation calls of this workflow's Apply.
ApplyCreates ==
  SelectSeq(calls, LAMBDA c : c.op = "create" /\ c.phase = "apply")

\* C27 (as claimed): the reservation Apply creates is created in the network
\* view in which Plan searched.
C27_ApplyInPlanView ==
  (script \in {"v3", "v2"} /\ phase = "apply") =>
    \A i \in 1..Len(ApplyCreates) : ApplyCreates[i].view = inp.view

\* infoblox-v2 passes the view of the search on to the create request.
V2ApplyInPlanView ==
  (script = "v2" /\ phase = "apply") =>
    \A i \in 1..Len(ApplyCreates) : ApplyCreates[i].view = inp.view

\* C28: the proposal outputs are written only by a dry-run that succeeded, and
\* then hold a primary block and, for a GKE request, a pods and a services
\* block; a dry-run that failed ended with a nonzero status and left every
\* output unwritten.
C28_HandoffAllOrNothing ==
  script \in {"v3", "v2", "gke"} =>
    /\ handoff.written =>
         /\ phase = "plan" => (pc = "planned" /\ exitCode = 0)
         /\ handoff.primary # NoBlock
         /\ (script = "gke" /\ inp.purpose = "GKE Cluster") =>
              (handoff.pods # NoBlock /\ handoff.services # NoBlock)
    /\ ~handoff.written => handoff = NoHandoff
    /\ (phase = "plan" /\ pc \in {"failed", "crashed"}) =>
         (handoff = NoHandoff /\ exitCode # 0)

C28_Witness ==
  /\ script = "gke" /\ phase = "plan" /\ pc = "planned"
  /\ inp.purpose = "GKE Cluster" /\ handoff.written
  /\ handoff.primary # NoBlock /\ handoff.pods # NoBlock
  /\ handoff.services # NoBlock

\* The (role, member) pairs the arguments ask for.
Requested(g) ==
  {<<r, SA>> : r \in IF g.sa THEN RolesToAssign(g.rolesSa, g.bundleSa) ELSE {}}
    \cup {<<r, GROUP>> : r \in IF g.ad THEN RolesToAssign(g.rolesAd, g.bundleAd)
                                ELSE {}}

\* C29: a run of the policy script issues at most one setPolicy; the document
\* it is about to write or has written grants every role asked for, to the
\* service account and to the group; after a successful write the backend's
\* policy grants all of them; and with an unknown bundle name in the arguments
\* no setPolicy is issued.
C29_OneWriteWithEveryGrant ==
  script \in {"policy", "policy1"} =>
    /\ Len(SetPolicyCalls) <= 1
    /\ (script = "policy" /\ (pc = "writing" \/ SetPolicyCalls # << >>)) =>
         /\ Requested(inp.grant) \subseteq Pairs(modp.bindings)
         /\ Pairs(cur.bindings) \subseteq Pairs(modp.bindings)
    /\ outcome = "applied" => Requested(inp.grant) \subseteq Pairs(iam.bindings)
    /\ ((inp.grant.sa /\ BundleUnknown(inp.grant.bundleSa))
        \/ (inp.grant.ad /\ BundleUnknown(inp.grant.bundleAd))) =>
         /\ SetPolicyCalls = << >>
         /\ pc # "writing"

C29_Witness ==
  /\ script = "policy" /\ pc = "applied" /\ outcome = "applied"
  /\ inp.grant.sa /\ inp.grant.ad
  /\ Len(SetPolicyCalls) = 1
  /\ \E p \in Requested(inp.grant) : p[2] = SA /\ p \notin Pairs(cur.bindings)
  /\ \E p \in Requested(inp.grant) : p[2] = GROUP /\ p \notin Pairs(cur.bindings)
  /\ Requested(inp.grant) \subseteq Pairs(iam.bindings)

\* C30 (as claimed): once share_subnet_with_service_project has written the
\* org policy, the policy allows every subnet it allowed before, and the new
\* one, also when the read of the policy had failed.
C30_ShareKeepsAllowedValues ==
  (script = "gke" /\ calls # << >>
   /\ calls[Len(calls)].op = "setOrgPolicy" /\ calls[Len(calls)].res = "ok") =>
    (orgPolicy.atStart \cup {subnet_path}) \subseteq orgPolicy.allowed

\* After a describe that succeeded, the write keeps what the policy allowed.
ShareAfterGoodReadKeepsAllowedValues ==
  (script = "gke" /\ Len(calls) >= 2
   /\ calls[Len(calls)].op = "setOrgPolicy" /\ calls[Len(calls)].res = "ok"
   /\ calls[Len(calls) - 1].res = "unlisted") =>
    (orgPolicy.atStart \cup {subnet_path}) \subseteq orgPolicy.allowed

\* The org-policies set-policy calls of the run.
SetOrgPolicyCalls == SelectSeq(calls, LAMBDA c : c.op = "setOrgPolicy")

\* C31 (as claimed): when the org policy already allows the subnet, sharing
\* issues no set-policy, leaves the policy as it is and, once over, has
\* succeeded.
C31_ShareIdempotent ==
  (script = "gke" /\ inp.purpose # "PSC Endpoint"
   /\ subnet_path \in orgPolicy.atStart) =>
    /\ SetOrgPolicyCalls = << >>
    /\ orgPolicy.allowed = orgPolicy.atStart
    /\ pc # "setting"

\* When the describe succeeded and lists the subnet, nothing is written and
\* the apply succeeds.
ShareListedIsNoOp ==
  (script = "gke" /\ calls # << >>
   /\ calls[Len(calls)].op = "describeOrgPolicy"
   /\ calls[Len(calls)].res = "listed") =>
    /\ pc = "applied" /\ exitCode = 0
    /\ SetOrgPolicyCalls = << >>
    /\ orgPolicy.allowed = orgPolicy.atStart

ShareListedReached ==
  /\ script = "gke" /\ calls # << >>
  /\ calls[Len(calls)].op = "describeOrgPolicy"
  /\ calls[Len(calls)].res = "listed" /\ pc = "applied"

\* The calls share_subnet can issue.
ShareOps == {"describeProject", "addBinding", "describeOrgPolicy", "setOrgPolicy"}

\* C32: in create-and-share-subnet every call of the share step comes after a
\* createSubnet that succeeded; after a failed createSubnet the run has failed
\* with no further call; and a run that failed in the share step has issued
\* one createSubnet and no call that removes the subnet.
C32_ShareOnlyAfterCreate ==
  (script = "gke" /\ phase = "apply") =>
    LET ac == CallsOf("apply") IN
    /\ \A i \in 1..Len(ac) :
         /\ ac[i].op \in ShareOps =>
              (i > 1 /\ ac[1].op = "createSubnet" /\ ac[1].res = "ok")
         /\ ac[i].op = "createSubnet" => i = 1
         /\ ac[i].op \in ShareOps \cup {"createSubnet"}
    /\ (ac # << >> /\ ac[1].res = "fail") =>
         (Len(ac) = 1 /\ pc = "failed" /\ exitCode = 1)
    /\ pc \in {"sharing", "binding", "setting"} =>
         (ac # << >> /\ ac[1].op = "createSubnet" /\ ac[1].res = "ok")
    /\ (pc = "failed" /\ ac # << >> /\ ac[1].res = "ok") => exitCode = 1

C32_Witness ==
  /\ script = "gke" /\ phase = "apply" /\ pc = "failed"
  /\ Len(CallsOf("apply")) = 3
  /\ CallsOf("apply")[1].op = "createSubnet" /\ CallsOf("apply")[1].res = "ok"
  /\ CallsOf("apply")[3].op = "setOrgPolicy" /\ CallsOf("apply")[3].res = "fail"

\* C33: in the apply of a GKE Cluster request a createSubnet is issued only
\* with both secondary blocks and both range names given; with one of them
\* missing the apply issues no backend call and fails with status 1.
C33_GkeCreateNeedsSecondaryRanges ==
  (script = "gke" /\ phase = "apply" /\ inp.purpose = "GKE Cluster") =>
    /\ (\E i \in 1..Len(calls) : calls[i].op = "createSubnet") =>
         inp.secondary = "complete"
    /\ inp.secondary # "complete" =>
         /\ CallsOf("apply") = << >>
         /\ pc \in {"creating", "failed"}
         /\ pc = "failed" => exitCode = 1

C33_Witness ==
  /\ script = "gke" /\ phase = "apply" /\ inp.purpose = "GKE Cluster"
  /\ inp.secondary = "missing" /\ pc = "failed" /\ exitCode = 1
  /\ CallsOf("apply") = << >>

\* C34: in the policy apply of either version of the script, when the policy
\* read has no etag and the merge changed its bindings, no setPolicy is issued
\* and the run ends with a nonzero status.
C34_NoEtagNoWrite ==
  (PolicyApplyMerged /\ cur.etag = 0 /\ modp.bindings # cur.bindings) =>
    /\ SetPolicyCalls = << >>
    /\ pc \in {"failed", "crashed"}
    /\ exitCode \notin {0, -1}
    /\ outcome # "applied"

C34_Witness ==
  /\ script = "policy" /\ PolicyApplyMerged
  /\ cur.etag = 0 /\ modp.bindings # cur.bindings
  /\ pc = "failed" /\ outcome = "error" /\ SetPolicyCalls = << >>

\* The calls the deletion workflow issued in a phase.
DeleteCalls(ph) == SelectSeq(calls, LAMBDA c : c.phase = ph)

\* C35: in the deletion workflow the dry-run issues one read (GET /network for
\* the CIDR and view given) and nothing else; subnet_ref is written exactly
\* when that read found the network, and is the found network's reference; a
\* dry-run that did not find it ends with a nonzero status. The apply issues
\* no read and at most one call, the DELETE of the reference it was given, and
\* once it has ended it has issued exactly that one.
C35_DeleteFindsThenDeletesByRef ==
  script \in {"delete", "delete1"} =>
    LET pl == DeleteCalls("plan")
        ap == DeleteCalls("apply")
    IN
    /\ Len(pl) <= 1
    /\ \A i \in 1..Len(pl) :
         /\ pl[i].op = "find" /\ pl[i].block = inp.subnet_cidr
         /\ pl[i].view = inp.view
    /\ handoff.written <=> (pl # << >> /\ pl[1].res = "found")
    /\ handoff.written => handoff.subnet_ref = inp.subnet_cidr
    /\ ~handoff.written => handoff = NoHandoff
    /\ (phase = "plan" /\ pc \in Terminal) =>
         /\ Len(pl) = 1
         /\ IF pl[1].res = "found" THEN pc = "planned" /\ exitCode = 0
            ELSE pc \in {"failed", "crashed"} /\ exitCode = 1
    /\ phase = "plan" => reserved \in InitReserved
    /\ Len(ap) <= 1
    /\ \A i \in 1..Len(ap) : ap[i].op = "delete" /\ ap[i].block = inp.subnet_ref
    /\ (phase = "apply" /\ pc \in Terminal) =>
         /\ Len(ap) = 1
         /\ (pc = "applied") <=> (ap[1].res = "deleted")
         /\ pc = "applied" => BlockUnits(inp.subnet_ref) \cap reserved = {}

C35_Witness ==
  /\ script = "delete" /\ phase = "apply" /\ pc = "applied"
  /\ handoff.written /\ inp.subnet_ref # handoff.subnet_ref
  /\ Len(DeleteCalls("plan")) = 1 /\ Len(DeleteCalls("apply")) = 1
  /\ DeleteCalls("apply")[1].block = inp.subnet_ref
  /\ NetworkExists(reserved, handoff.subnet_ref)

====
